---- MODULE Spec2Model ----
(***************************************************************************)
(* State-machine model of the centerback.ai backend core: the ingestion    *)
(* queue (routes/ingest.py), the background worker                         *)
(* (services/ingest_pipeline.py) and the detection / alerting engine       *)
(* (services/detection_service.py, routes/classify.py, routes/alerts.py).  *)
(*                                                                         *)
(* Storage model.  The tables live in one relational store shared by the   *)
(* request handlers and the worker thread.  `messages' and `alerts' hold   *)
(* the COMMITTED rows; every open session keeps its uncommitted writes in  *)
(* its own record and publishes them at commit.  A SQL statement is        *)
(* atomic, reads see committed rows plus the session's own writes, and an  *)
(* UPDATE of a row that another open transaction has already written       *)
(* waits for that transaction to end and then re-evaluates its WHERE       *)
(* clause on the committed row (row-level write locks).                    *)
(*                                                                         *)
(* Time is an integer clock `now'; confidences are integer percentages     *)
(* (0.97 is 97), which preserves every comparison the code makes.          *)
(***************************************************************************)
EXTENDS Integers, Sequences, FiniteSets, TLC

VARIABLES
    now,        \* datetime.utcnow(), in window units
    messages,   \* committed ingestion_messages rows; the id of a row is its index
    rq,         \* one record per HTTP enqueue session (POST /ingest/flows)
    wk,         \* one record per worker: the open _process_batch transaction
    nRetries,   \* number of retry calls served so far (bounds the run)
    nEvents,    \* committed classification_events rows (count)
    nEvals,     \* committed model_evaluation_events rows (count)
    retried,    \* the answer to the last POST /ingest/retry/{message_id}
    drift,      \* the drift detector: the rows it reads and its last report
    alerts,     \* committed alerts rows; the id of a row is its index
    cs,         \* one record per API session running record_classification
    conc,       \* deployment: how many workers / requests / API sessions may overlap,
                \* and what the loaded classifier can answer
    patch,      \* the answer to the last PATCH /alerts/{id}/status
    pipe,       \* IngestionPipeline: _running, the _task and a stop() call
    notif,      \* NotificationService: sinks configured, notify_alert calls, threads
    canary      \* CanaryService: the lock, the configuration, the calls in progress

vars == <<now, messages, rq, wk, nRetries, nEvents, nEvals, alerts, cs, conc, patch, pipe, notif, canary,
          retried, drift>>

(***************************************************************************)
(* Settings (app/config.py).  They are environment-driven; the model runs  *)
(* them at small values.                                                   *)
(***************************************************************************)
ingest_max_attempts == 2

ingest_batch_size == 2

ingest_max_queue_depth == 2

ingest_idempotency_window_minutes == 1

alert_dedup_window_minutes == 1

(***************************************************************************)
(* Bounds of the model.                                                    *)
(***************************************************************************)
MaxMessages == 3

MaxFlows == 2

MaxTime == 2

MaxRetries == 1

MaxAlerts == 3

MaxEvents == 3

Workers == {1, 2}

Sessions == {1, 2}

None == "none"

Sources == {"s1"}

FlowIds == {None, "f1"}

Contents == {"c1"}

(***************************************************************************)
(* Generic helpers.                                                        *)
(***************************************************************************)
Range(s) == {s[i] : i \in DOMAIN s}

SeqsUpTo(S, n) == UNION {[1..k -> S] : k \in 1..n}

(***************************************************************************)
(* Ingestion queue (routes/ingest.py, models/entities.py).                 *)
(***************************************************************************)
QueueStatus == {"queued", "processing", "done", "failed", "dead_letter"}

\* FlowPayload: flow_id is optional; source_ip, destination_ip and the 78
\* features are carried as one opaque content value.
FlowPayload == [flow_id : FlowIds, content : Contents]

\* sha256(json.dumps({...}, sort_keys=True)).hexdigest(): a string of hex
\* digits per content (source_ip, destination_ip, features; metadata is not
\* hashed), here without collisions.
Digest(content) ==
    CASE content = "c1" -> "4a1f"
      [] content = "c2" -> "9be0"

\* _flow_idempotency_key: f"{source}:{flow.flow_id}" when flow_id is truthy
\* (neither None nor ""), else f"{source}:{digest}".  The second part is a
\* plain string in both cases.
flow_idempotency_key(source, flow) ==
    IF flow.flow_id \notin {None, ""}
    THEN <<source, flow.flow_id>>
    ELSE <<source, Digest(flow.content)>>

\* select count(id) where status in (queued, processing, failed)
QueueDepth(rows) ==
    Cardinality({i \in DOMAIN rows : rows[i].status \in {"queued", "processing", "failed"}})

\* The backpressure tests with a slip: the flows of the request are not counted.
BackpressureDepthOnly(queue_depth, nflows) == queue_depth >= ingest_max_queue_depth

\* The two backpressure tests of ingest_flows.
BackpressureRejects(queue_depth, nflows) ==
    \/ queue_depth >= ingest_max_queue_depth
    \/ queue_depth + nflows > ingest_max_queue_depth

\* The key SELECT with a slip: only messages still waiting are looked at.
ExistingKeysWaiting(rows, source, cutoff) ==
    {rows[i].idempotency_key : i \in {j \in DOMAIN rows :
        /\ rows[j].source = source
        /\ rows[j].created_at >= cutoff
        /\ rows[j].status \in {"queued", "processing", "failed"}}}

\* select idempotency_key where source = ? and created_at >= cutoff
\*   and idempotency_key is not null
ExistingKeys(rows, source, cutoff) ==
    {rows[i].idempotency_key : i \in {j \in DOMAIN rows :
        /\ rows[j].source = source
        /\ rows[j].created_at >= cutoff}}

\* A stored message; features_ok tells whether payload["features"] is a list
\* of 78 values (FlowPayload admits nothing else).
NewMessage(source, key, t) ==
    [source |-> source, idempotency_key |-> key, status |-> "queued",
     attempts |-> 0, last_error |-> None, created_at |-> t, features_ok |-> TRUE]

\* The loop with a slip: a key just inserted is not remembered.
RECURSIVE EnqueueLoopNoTrack(_, _, _, _, _)
EnqueueLoopNoTrack(source, flows, i, t, st) ==
    IF i > Len(flows) THEN st
    ELSE LET key == flow_idempotency_key(source, flows[i]) IN
         IF key \in st.existing_keys
         THEN EnqueueLoopNoTrack(source, flows, i + 1, t,
                                 [st EXCEPT !.duplicates_skipped = @ + 1])
         ELSE EnqueueLoopNoTrack(source, flows, i + 1, t,
                                 [st EXCEPT !.added = Append(@, NewMessage(source, key, t)),
                                            !.queued = @ + 1])

\* The loop of ingest_flows over payload.flows, from flow i on: st carries
\* existing_keys, the rows added so far, queued and duplicates_skipped.
RECURSIVE EnqueueLoop(_, _, _, _, _)
EnqueueLoop(source, flows, i, t, st) ==
    IF i > Len(flows) THEN st
    ELSE LET key == flow_idempotency_key(source, flows[i]) IN
         IF key \in st.existing_keys
         THEN EnqueueLoop(source, flows, i + 1, t,
                          [st EXCEPT !.duplicates_skipped = @ + 1])
         ELSE EnqueueLoop(source, flows, i + 1, t,
                          [st EXCEPT !.added = Append(@, NewMessage(source, key, t)),
                                     !.existing_keys = @ \cup {key},
                                     !.queued = @ + 1])

\* An enqueue session: pc is where the handler stands ("idle" before the first
\* request; "rejected" / "done" once the last request was answered 429 / 200).
IdleRequest ==
    [pc |-> "idle", source |-> None, flows |-> <<>>,
     existing_keys |-> {}, queued |-> 0, duplicates_skipped |-> 0]

InFlight(r) == rq[r].pc \in {"keys", "insert"}

\* ingest_flows with a slip: capacity is tested flow by flow, so a request that
\* does not fit is rejected after the flows that did fit were committed.
EnqCheckPartial(r) ==
    /\ ~InFlight(r)
    /\ Cardinality({x \in Sessions : InFlight(x)}) < conc.requests
    /\ \E source \in Sources, flows \in SeqsUpTo(FlowPayload, MaxFlows) :
          LET depth == QueueDepth(messages)
              room  == IF depth >= ingest_max_queue_depth THEN 0
                       ELSE ingest_max_queue_depth - depth
              head  == SubSeq(flows, 1, IF room < Len(flows) THEN room ELSE Len(flows))
              st    == EnqueueLoop(source, head, 1, now,
                          [existing_keys |-> ExistingKeys(messages, source,
                                                now - ingest_idempotency_window_minutes),
                           added |-> <<>>, queued |-> 0, duplicates_skipped |-> 0])
          IN IF BackpressureRejects(depth, Len(flows))
             THEN /\ Len(messages) + Len(st.added) <= MaxMessages
                  /\ messages' = messages \o st.added
                  /\ rq' = [rq EXCEPT ![r] = [IdleRequest EXCEPT
                                                 !.pc = "rejected",
                                                 !.source = source,
                                                 !.flows = flows]]
             ELSE /\ messages' = messages
                  /\ rq' = [rq EXCEPT ![r] = [IdleRequest EXCEPT
                                                 !.pc = "keys",
                                                 !.source = source,
                                                 !.flows = flows]]
    /\ UNCHANGED <<now, wk, nRetries, nEvents, nEvals, alerts, cs, conc, patch, pipe, notif, canary, retried, drift>>

\* ingest_flows, first statement, on a request (source, flows) out of the given
\* sources and flow lists: count the queue depth and apply backpressure.
\* HTTPException(429) ends the request before anything is added.
EnqCheckFrom(r, sources, lists) ==
    /\ ~InFlight(r)
    /\ Cardinality({x \in Sessions : InFlight(x)}) < conc.requests
    /\ \E source \in sources, flows \in lists :
          rq' = [rq EXCEPT ![r] =
                    IF BackpressureRejects(QueueDepth(messages), Len(flows))
                    THEN [IdleRequest EXCEPT !.pc = "rejected",
                                             !.source = source,
                                             !.flows = flows]
                    ELSE [IdleRequest EXCEPT !.pc = "keys",
                                             !.source = source,
                                             !.flows = flows]]
    /\ UNCHANGED <<now, messages, wk, nRetries, nEvents, nEvals, alerts, cs, conc, patch, pipe, notif, canary, retried, drift>>

\* Requests of one source with up to MaxFlows flows.
EnqCheck(r) == EnqCheckFrom(r, Sources, SeqsUpTo(FlowPayload, MaxFlows))

\* Requests of two sources with one flow each.
TwoSources == {"s1", "s2"}

EnqCheckOne(r) == EnqCheckFrom(r, TwoSources, [1..1 -> FlowPayload])

\* ingest_flows, second statement: read the keys of the source inside the window.
EnqReadKeys(r) ==
    /\ rq[r].pc = "keys"
    /\ rq' = [rq EXCEPT ![r].existing_keys =
                            ExistingKeys(messages, rq[r].source,
                                         now - ingest_idempotency_window_minutes),
                        ![r].pc = "insert"]
    /\ UNCHANGED <<now, messages, wk, nRetries, nEvents, nEvals, alerts, cs, conc, patch, pipe, notif, canary, retried, drift>>

\* ingest_flows, the loop and db.commit(): the INSERTs are flushed at commit,
\* so created_at is the commit time.
EnqCommit(r) ==
    /\ rq[r].pc = "insert"
    /\ LET st == EnqueueLoop(rq[r].source, rq[r].flows, 1, now,
                             [existing_keys |-> rq[r].existing_keys, added |-> <<>>,
                              queued |-> 0, duplicates_skipped |-> 0])
       IN /\ Len(messages) + Len(st.added) <= MaxMessages
          /\ messages' = messages \o st.added
          /\ rq' = [rq EXCEPT ![r] = [IdleRequest EXCEPT
                              !.pc = "done",
                              !.queued = st.queued,
                              !.duplicates_skipped = st.duplicates_skipped]]
    /\ UNCHANGED <<now, wk, nRetries, nEvents, nEvals, alerts, cs, conc, patch, pipe, notif, canary, retried, drift>>

\* A row is write-locked while an open worker transaction has updated it.
Locked(id) == \E w \in Workers : id \in DOMAIN wk[w].rows

NoRetry == [code |-> 0, id |-> 0]

\* The reset with a slip: the attempts are kept.
RequeuedKeepsAttempts(row) ==
    [row EXCEPT !.status = "queued", !.last_error = None]

\* retry_dead_letter, the three assignments to the message.
Requeued(row) ==
    [row EXCEPT !.status = "queued", !.last_error = None, !.attempts = 0]

\* retry_dead_letter: db.get, then status, last_error and attempts are reset and
\* committed; an unknown id is answered 404 and changes nothing.  The UPDATE
\* waits while a worker transaction holds the row.
retry_dead_letter(id) ==
    /\ nRetries < MaxRetries
    /\ nRetries' = nRetries + 1
    /\ IF id \notin DOMAIN messages
       THEN /\ retried' = [code |-> 404, id |-> id]
            /\ messages' = messages
       ELSE /\ ~Locked(id)
            /\ retried' = [code |-> 200, id |-> id]
            /\ messages' = [messages EXCEPT ![id] = Requeued(messages[id])]
    /\ UNCHANGED <<now, rq, wk, nEvents, nEvals, alerts, cs, conc, patch, pipe, notif, canary, drift>>

(***************************************************************************)
(* Detection and alerting engine (services/detection_service.py).          *)
(***************************************************************************)
AlertStatus == {"new", "triaged", "investigating", "resolved", "false_positive"}

OpenStatus == {"new", "triaged", "investigating"}

\* What ClassifierService.predict_single may return (an opaque collaborator).
ClassifierResults ==
    { [prediction |-> "BENIGN", confidence |-> 99, is_threat |-> FALSE],
      [prediction |-> "DDoS", confidence |-> 81, is_threat |-> TRUE],
      [prediction |-> "DDoS", confidence |-> 93, is_threat |-> TRUE],
      [prediction |-> "DDoS", confidence |-> 97, is_threat |-> TRUE],
      [prediction |-> "PortScan", confidence |-> 93, is_threat |-> TRUE] }

SourceIps == {"10.0.0.1"}

DestinationIps == {"10.0.0.2"}

\* The thresholds with a slip: a confidence on a boundary falls to the lower
\* severity.
severityStrict(confidence) ==
    IF confidence > 95 THEN "critical"
    ELSE IF confidence > 90 THEN "high"
    ELSE IF confidence > 80 THEN "medium"
    ELSE "low"

\* DetectionService._severity (confidence in hundredths)
severity(confidence) ==
    IF confidence >= 95 THEN "critical"
    ELSE IF confidence >= 90 THEN "high"
    ELSE IF confidence >= 80 THEN "medium"
    ELSE "low"

\* The detection-side writes of an open session: events added, alerts added
\* (flushed, not committed) and the Alert objects it holds in its identity map
\* (id, the confidence the object carries, and whether that attribute is dirty).
EmptyTx == [events |-> 0, evals |-> 0, ains |-> <<>>, held |-> {}]

Holds(tx, i) == \E h \in tx.held : h.id = i

HeldOf(tx, i) == CHOOSE h \in tx.held : h.id = i

\* Confidence of committed alert i as the session sees it.
SeenConfidence(tx, i) ==
    IF Holds(tx, i) THEN HeldOf(tx, i).confidence ELSE alerts[i].confidence

\* The rows the SELECT of record_classification matches: committed alerts and
\* the session's own inserts; index Len(alerts) + k is the session's k-th insert.
MatchingAlerts(tx, dedup_key, cutoff) ==
    {i \in DOMAIN alerts :
        /\ alerts[i].dedup_key = dedup_key
        /\ alerts[i].created_at >= cutoff
        /\ alerts[i].status \in OpenStatus}
    \cup
    {Len(alerts) + k : k \in {j \in DOMAIN tx.ains :
        /\ tx.ains[j].dedup_key = dedup_key
        /\ tx.ains[j].created_at >= cutoff
        /\ tx.ains[j].status \in OpenStatus}}

CreatedAt(tx, i) ==
    IF i <= Len(alerts) THEN alerts[i].created_at ELSE tx.ains[i - Len(alerts)].created_at

\* order_by(desc(created_at)), first row: any of the most recent matches.
MostRecent(tx, matches) ==
    {i \in matches : \A j \in matches : CreatedAt(tx, i) >= CreatedAt(tx, j)}

\* The merge branch with a slip: the confidence is overwritten, higher or not.
MergeIntoOverwrite(tx, i, confidence) ==
    IF i <= Len(alerts)
    THEN [tx EXCEPT !.held = {h \in tx.held : h.id # i} \cup
             {[id |-> i, confidence |-> confidence, dirty |-> TRUE, updated_at |-> now]}]
    ELSE [tx EXCEPT !.ains[i - Len(alerts)].confidence = confidence,
                    !.ains[i - Len(alerts)].severity = severity(confidence),
                    !.ains[i - Len(alerts)].updated_at = now]

\* The merge branch with a slip: updated_at is left alone unless the confidence
\* is raised.
MergeIntoKeepsTimestamp(tx, i, confidence) ==
    IF i <= Len(alerts)
    THEN LET seen == SeenConfidence(tx, i)
             rest == {h \in tx.held : h.id # i}
             was  == Holds(tx, i) /\ HeldOf(tx, i).dirty
             at   == IF Holds(tx, i) THEN HeldOf(tx, i).updated_at
                     ELSE alerts[i].updated_at
         IN IF confidence > seen
            THEN [tx EXCEPT !.held = rest \cup
                     {[id |-> i, confidence |-> confidence, dirty |-> TRUE,
                       updated_at |-> now]}]
            ELSE [tx EXCEPT !.held = rest \cup
                     {[id |-> i, confidence |-> seen, dirty |-> was,
                       updated_at |-> at]}]
    ELSE LET k == i - Len(alerts) IN
         IF confidence > tx.ains[k].confidence
         THEN [tx EXCEPT !.ains[k].confidence = confidence,
                         !.ains[k].severity = severity(confidence),
                         !.ains[k].updated_at = now]
         ELSE tx

\* The merge branch of record_classification on alert i: confidence and
\* severity are raised when the new confidence is higher, updated_at is set
\* in any case.
MergeInto(tx, i, confidence) ==
    IF i <= Len(alerts)
    THEN LET seen == SeenConfidence(tx, i)
             rest == {h \in tx.held : h.id # i}
             was  == Holds(tx, i) /\ HeldOf(tx, i).dirty
         IN IF confidence > seen
            THEN [tx EXCEPT !.held = rest \cup
                     {[id |-> i, confidence |-> confidence, dirty |-> TRUE,
                       updated_at |-> now]}]
            ELSE [tx EXCEPT !.held = rest \cup
                     {[id |-> i, confidence |-> seen, dirty |-> was,
                       updated_at |-> now]}]
    ELSE LET k == i - Len(alerts) IN
         IF confidence > tx.ains[k].confidence
         THEN [tx EXCEPT !.ains[k].confidence = confidence,
                         !.ains[k].severity = severity(confidence),
                         !.ains[k].updated_at = now]
         ELSE [tx EXCEPT !.ains[k].updated_at = now]

\* Alert(...): status, created_at and updated_at take their column defaults.
NewAlert(dedup_key, confidence, t) ==
    [dedup_key |-> dedup_key, confidence |-> confidence,
     severity |-> severity(confidence), status |-> "new", created_at |-> t,
     updated_at |-> t]

\* The event with a slip: it is added twice.
WithEventTwice(tx) == [tx EXCEPT !.events = @ + 2]

\* db.add(event); db.flush(): one ClassificationEvent joins the session.
WithEvent(tx) == [tx EXCEPT !.events = @ + 1]

\* record_classification with a slip: the dispatcher is called for a merge too.
RecordNotifiesMerge(tx, prediction, confidence, is_threat, source_ip, destination_ip) ==
    LET withEvent == WithEvent(tx)
        dedup_key == <<prediction, source_ip, destination_ip>>
        cutoff    == now - alert_dedup_window_minutes
        matches   == MatchingAlerts(tx, dedup_key, cutoff)
    IN IF ~is_threat THEN {[tx |-> withEvent, notify |-> 0, alert |-> 0]}
       ELSE IF matches # {}
       THEN {[tx |-> MergeInto(withEvent, i, confidence), notify |-> 1, alert |-> i] :
                i \in MostRecent(tx, matches)}
       ELSE {[tx |-> [withEvent EXCEPT
                         !.ains = Append(@, NewAlert(dedup_key, confidence, now))],
              notify |-> 1, alert |-> Len(alerts) + Len(tx.ains) + 1]}

\* record_classification: the session states it can leave behind, each with the
\* number of notification_service.notify_alert calls it made and the alert it
\* returns (0 for None, else the alert's row; rows after the committed ones are
\* the session's own inserts).
record_classification(tx, prediction, confidence, is_threat, source_ip, destination_ip) ==
    LET withEvent == WithEvent(tx)
        dedup_key == <<prediction, source_ip, destination_ip>>
        cutoff    == now - alert_dedup_window_minutes
        matches   == MatchingAlerts(tx, dedup_key, cutoff)
    IN IF ~is_threat THEN {[tx |-> withEvent, notify |-> 0, alert |-> 0]}
       ELSE IF matches # {}
       THEN {[tx |-> MergeInto(withEvent, i, confidence), notify |-> 0, alert |-> i] :
                i \in MostRecent(tx, matches)}
       ELSE {[tx |-> [withEvent EXCEPT
                         !.ains = Append(@, NewAlert(dedup_key, confidence, now))],
              notify |-> 1, alert |-> Len(alerts) + Len(tx.ains) + 1]}

(***************************************************************************)
(* Notifications (services/notification_service.py).  notif.calls counts   *)
(* the notify_alert invocations, notif.threads the _send threads started   *)
(* and not yet finished, notif.sent and notif.logged the posts that        *)
(* succeeded and the failures written to the log.                          *)
(***************************************************************************)
NoSinks ==
    [webhook |-> FALSE, slack |-> FALSE, calls |-> 0, threads |-> 0,
     sent |-> 0, logged |-> 0]

\* notify_alert, called n times: returns at once when no sink is configured,
\* else starts a daemon thread on _send.
notify_alert(n) ==
    [notif EXCEPT !.calls = @ + n,
                  !.threads = @ + (IF notif.webhook \/ notif.slack THEN n ELSE 0)]

\* _send with a slip: the failure of a post is not caught, and the call is not
\* on a thread of its own, so it reaches the request that created the alert,
\* which fails without committing.
sendPropagates(okWebhook, okSlack) ==
    /\ notif.threads > 0
    /\ notif' = [notif EXCEPT !.threads = @ - 1]
    /\ IF (notif.webhook => okWebhook) /\ (notif.slack => okSlack)
       THEN cs' = cs
       ELSE \E s \in Sessions :
               /\ cs[s].pc = "commit"
               /\ cs' = [cs EXCEPT ![s].pc = "idle", ![s].tx = EmptyTx]
    /\ UNCHANGED <<now, messages, rq, wk, nRetries, nEvents, nEvals, alerts, conc, patch, pipe, canary, retried, drift>>

\* _send on its thread: one post per configured sink; a post that fails is
\* logged and nothing else happens.
send(okWebhook, okSlack) ==
    /\ notif.threads > 0
    /\ LET posts == (IF notif.webhook THEN {<<"webhook", okWebhook>>} ELSE {})
                       \cup (IF notif.slack THEN {<<"slack", okSlack>>} ELSE {})
       IN notif' = [notif EXCEPT
                      !.threads = @ - 1,
                      !.sent = @ + Cardinality({p \in posts : p[2]}),
                      !.logged = @ + Cardinality({p \in posts : ~p[2]})]
    /\ UNCHANGED <<now, messages, rq, wk, nRetries, nEvents, nEvals, alerts, cs, conc, patch, pipe, canary, retried, drift>>

\* The commit with a slip: a raised confidence is written without its severity.
CommitAlertsKeepsSeverity(tx) ==
    [i \in DOMAIN alerts |->
        IF Holds(tx, i) /\ HeldOf(tx, i).dirty
        THEN [alerts[i] EXCEPT !.confidence = HeldOf(tx, i).confidence,
                               !.updated_at = HeldOf(tx, i).updated_at]
        ELSE IF Holds(tx, i)
        THEN [alerts[i] EXCEPT !.updated_at = HeldOf(tx, i).updated_at]
        ELSE alerts[i]] \o tx.ains

\* db.commit() as far as the detection tables go: dirty Alert objects are
\* written back by primary key, the inserts become visible.
CommitAlerts(tx) ==
    [i \in DOMAIN alerts |->
        IF Holds(tx, i) /\ HeldOf(tx, i).dirty
        THEN [alerts[i] EXCEPT !.confidence = HeldOf(tx, i).confidence,
                               !.severity = severity(HeldOf(tx, i).confidence),
                               !.updated_at = HeldOf(tx, i).updated_at]
        ELSE IF Holds(tx, i)
        THEN [alerts[i] EXCEPT !.updated_at = HeldOf(tx, i).updated_at]
        ELSE alerts[i]] \o tx.ains

TxFits(tx) ==
    /\ nEvents + tx.events <= MaxEvents
    /\ Len(alerts) + Len(tx.ains) <= MaxAlerts

(***************************************************************************)
(* Canary evaluation (services/canary_service.py).  enable and disable run *)
(* on the event loop, one call at a time, and take self._lock;             *)
(* should_sample and evaluate run on the worker's thread and read the      *)
(* attributes one by one.                                                  *)
(***************************************************************************)
\* What a model_path can point at: no file, artifacts without one of the keys,
\* an artifact whose feature_names is a number, and two whole artifacts.
Artifacts == {"missing", "no_model", "no_encoder", "no_names", "scalar_names", "v1", "v2"}

TrafficPercents == {0, 5, 100, 150}

\* joblib.load(resolved_path) and the three data.get calls.
Artifact(model_path) ==
    [model |-> IF model_path = "no_model" THEN None ELSE model_path,
     label_encoder |-> IF model_path = "no_encoder" THEN None ELSE model_path,
     feature_names |-> IF model_path = "no_names" THEN None
                       ELSE IF model_path = "scalar_names" THEN "scalar"
                       ELSE model_path]

ClearedConfig ==
    [enabled |-> FALSE, traffic_percent |-> 0, model_path |-> None, model |-> None,
     label_encoder |-> None, feature_names |-> None, version |-> None]

canary_status(cfg) ==
    [enabled |-> cfg.enabled, traffic_percent |-> cfg.traffic_percent,
     model_path |-> cfg.model_path, model_version |-> cfg.version]

NoReturn == [op |-> None, error |-> None, status |-> canary_status(ClearedConfig)]

IdleWriter == [op |-> None, k |-> 0, model_path |-> None, traffic_percent |-> 0]

NoOutcome == [kind |-> None, model |-> None, label_encoder |-> None, version |-> None]

IdleReader == [pc |-> "idle", quiet |-> FALSE, model |-> None, label_encoder |-> None]

\* CanaryService.__init__; last is the call that last went through the lock,
\* out what the last enable or disable returned or raised, outcome what the
\* reader's last call returned or raised.
NewCanary ==
    [cfg |-> ClearedConfig, lock |-> FALSE, writer |-> IdleWriter, out |-> NoReturn,
     last |-> None, reader |-> IdleReader, outcome |-> NoOutcome]

NotFound == "Canary model artifact not found"

InvalidFormat == "Invalid canary model artifact format"

\* enable with a slip: the attributes are assigned before the artifact is checked.
enableAssignsFirst(model_path, traffic_percent) ==
    /\ canary.writer.op = None
    /\ ~canary.lock
    /\ LET data == Artifact(model_path)
       IN IF model_path = "missing"
          THEN canary' = [canary EXCEPT
                  !.out = [op |-> "enable", error |-> NotFound, status |-> canary_status(canary.cfg)]]
          ELSE IF data.model = None \/ data.label_encoder = None \/ data.feature_names = None
          THEN canary' = [canary EXCEPT
                  !.cfg.model = data.model,
                  !.cfg.label_encoder = data.label_encoder,
                  !.out = [op |-> "enable", error |-> InvalidFormat,
                           status |-> canary_status(canary.cfg)]]
          ELSE canary' = [canary EXCEPT
                  !.lock = TRUE,
                  !.reader.quiet = FALSE,
                  !.writer = [op |-> "enable", k |-> 1, model_path |-> model_path,
                              traffic_percent |-> traffic_percent]]
    /\ UNCHANGED <<now, messages, rq, wk, nRetries, nEvents, nEvals, alerts, cs, conc, patch, pipe, notif, retried, drift>>

\* enable up to "with self._lock": the path must exist and the artifact hold a
\* model, a label encoder and feature names, else ValueError (400 in the route).
enable(model_path, traffic_percent) ==
    /\ canary.writer.op = None
    /\ ~canary.lock
    /\ LET data == Artifact(model_path)
       IN IF model_path = "missing"
          THEN canary' = [canary EXCEPT
                  !.out = [op |-> "enable", error |-> NotFound, status |-> canary_status(canary.cfg)]]
          ELSE IF data.model = None \/ data.label_encoder = None \/ data.feature_names = None
          THEN canary' = [canary EXCEPT
                  !.out = [op |-> "enable", error |-> InvalidFormat,
                           status |-> canary_status(canary.cfg)]]
          ELSE canary' = [canary EXCEPT
                  !.lock = TRUE,
                  !.reader.quiet = FALSE,
                  !.writer = [op |-> "enable", k |-> 1, model_path |-> model_path,
                              traffic_percent |-> traffic_percent]]
    /\ UNCHANGED <<now, messages, rq, wk, nRetries, nEvents, nEvals, alerts, cs, conc, patch, pipe, notif, retried, drift>>

Clamp(traffic_percent) ==
    LET low == IF traffic_percent < 100 THEN traffic_percent ELSE 100
    IN IF low > 1 THEN low ELSE 1

\* The k-th assignment of enable under the lock.
EnableWrite(cfg, k, model_path, traffic_percent) ==
    LET data == Artifact(model_path)
    IN CASE k = 1 -> [cfg EXCEPT !.model = data.model]
         [] k = 2 -> [cfg EXCEPT !.label_encoder = data.label_encoder]
         [] k = 3 -> [cfg EXCEPT !.feature_names = data.feature_names]
         [] k = 4 -> [cfg EXCEPT !.model_path = model_path]
         [] k = 5 -> [cfg EXCEPT !.version = model_path]
         [] k = 6 -> [cfg EXCEPT !.traffic_percent = Clamp(traffic_percent)]
         [] k = 7 -> [cfg EXCEPT !.enabled = TRUE]

\* One assignment of enable; list(feature_names) raises TypeError on a number
\* and the with statement releases the lock.
enable_assign ==
    /\ canary.writer.op = "enable"
    /\ canary.writer.k \in 1..7
    /\ LET w == canary.writer
       IN IF w.k = 3 /\ Artifact(w.model_path).feature_names = "scalar"
          THEN canary' = [canary EXCEPT
                  !.lock = FALSE, !.writer = IdleWriter, !.last = "enable_raised",
                  !.out = [op |-> "enable", error |-> "TypeError",
                           status |-> canary_status(canary.cfg)]]
          ELSE canary' = [canary EXCEPT
                  !.cfg = EnableWrite(@, w.k, w.model_path, w.traffic_percent),
                  !.writer.k = @ + 1]
    /\ UNCHANGED <<now, messages, rq, wk, nRetries, nEvents, nEvals, alerts, cs, conc, patch, pipe, notif, retried, drift>>

\* disable, "with self._lock".
disable ==
    /\ canary.writer.op = None
    /\ ~canary.lock
    /\ canary' = [canary EXCEPT
          !.lock = TRUE,
          !.reader.quiet = FALSE,
          !.writer = [op |-> "disable", k |-> 1, model_path |-> None, traffic_percent |-> 0]]
    /\ UNCHANGED <<now, messages, rq, wk, nRetries, nEvents, nEvals, alerts, cs, conc, patch, pipe, notif, retried, drift>>

\* disable with a slip: the model stays loaded.
DisableWriteKeepsModel(cfg, k) ==
    CASE k = 1 -> [cfg EXCEPT !.enabled = FALSE]
      [] k = 2 -> [cfg EXCEPT !.traffic_percent = 0]
      [] k = 3 -> [cfg EXCEPT !.model_path = None]
      [] k = 4 -> cfg
      [] k = 5 -> [cfg EXCEPT !.label_encoder = None]
      [] k = 6 -> [cfg EXCEPT !.feature_names = None]
      [] k = 7 -> [cfg EXCEPT !.version = None]

\* The k-th assignment of disable under the lock.
DisableWrite(cfg, k) ==
    CASE k = 1 -> [cfg EXCEPT !.enabled = FALSE]
      [] k = 2 -> [cfg EXCEPT !.traffic_percent = 0]
      [] k = 3 -> [cfg EXCEPT !.model_path = None]
      [] k = 4 -> [cfg EXCEPT !.model = None]
      [] k = 5 -> [cfg EXCEPT !.label_encoder = None]
      [] k = 6 -> [cfg EXCEPT !.feature_names = None]
      [] k = 7 -> [cfg EXCEPT !.version = None]

disable_assign ==
    /\ canary.writer.op = "disable"
    /\ canary.writer.k \in 1..7
    /\ canary' = [canary EXCEPT !.cfg = DisableWrite(@, canary.writer.k),
                                !.writer.k = @ + 1]
    /\ UNCHANGED <<now, messages, rq, wk, nRetries, nEvents, nEvals, alerts, cs, conc, patch, pipe, notif, retried, drift>>

\* The end of the with block and "return self.status()" of enable and disable.
writer_return ==
    /\ canary.writer.op # None
    /\ canary.writer.k = 8
    /\ canary' = [canary EXCEPT
          !.lock = FALSE, !.writer = IdleWriter, !.last = canary.writer.op,
          !.out = [op |-> canary.writer.op, error |-> None, status |-> canary_status(canary.cfg)]]
    /\ UNCHANGED <<now, messages, rq, wk, nRetries, nEvents, nEvals, alerts, cs, conc, patch, pipe, notif, retried, drift>>

Returned(kind) == [NoOutcome EXCEPT !.kind = kind]

\* should_sample, the read of self._enabled; quiet records that no enable or
\* disable is between its lock and its return when the call starts.
should_sample ==
    /\ canary.reader.pc = "idle"
    /\ canary' = [canary EXCEPT
          !.reader = [IdleReader EXCEPT
                        !.quiet = (canary.writer.op = None),
                        !.pc = IF canary.cfg.enabled THEN "draw" ELSE "idle"],
          !.outcome = IF canary.cfg.enabled THEN @ ELSE Returned("not_sampled")]
    /\ UNCHANGED <<now, messages, rq, wk, nRetries, nEvents, nEvals, alerts, cs, conc, patch, pipe, notif, retried, drift>>

\* should_sample, random.random() * 100 < self._traffic_percent; a call that
\* answers true is followed by evaluate (detection_service.py 57-58).
should_sample_draw ==
    /\ canary.reader.pc = "draw"
    /\ \E hit \in BOOLEAN :
          /\ hit => canary.cfg.traffic_percent > 0
          /\ ~hit => canary.cfg.traffic_percent < 100
          /\ canary' = [canary EXCEPT
                !.reader.pc = IF hit THEN "evaluate" ELSE "idle",
                !.outcome = IF hit THEN Returned("sampled") ELSE Returned("not_sampled")]
    /\ UNCHANGED <<now, messages, rq, wk, nRetries, nEvents, nEvals, alerts, cs, conc, patch, pipe, notif, retried, drift>>

\* evaluate, the guard: self._enabled, self._model, self._label_encoder are read
\* in turn and the call returns None at the first that fails.
evaluate_guard ==
    /\ canary.reader.pc \in {"evaluate", "guard_model", "guard_encoder"}
    /\ LET pc   == canary.reader.pc
           pass == CASE pc = "evaluate" -> canary.cfg.enabled
                     [] pc = "guard_model" -> canary.cfg.model # None
                     [] pc = "guard_encoder" -> canary.cfg.label_encoder # None
           next == CASE pc = "evaluate" -> "guard_model"
                     [] pc = "guard_model" -> "guard_encoder"
                     [] pc = "guard_encoder" -> "predict"
       IN canary' = [canary EXCEPT
             !.reader.quiet = IF pc = "evaluate" THEN canary.writer.op = None ELSE @,
             !.reader.pc = IF pass THEN next ELSE "idle",
             !.outcome = IF pass THEN @ ELSE Returned("no_result")]
    /\ UNCHANGED <<now, messages, rq, wk, nRetries, nEvents, nEvals, alerts, cs, conc, patch, pipe, notif, retried, drift>>

\* evaluate, the body: self._model.predict, self._model.predict_proba,
\* self._label_encoder.inverse_transform and self._version are read again; a
\* method call on None raises AttributeError.
evaluate_body ==
    /\ canary.reader.pc \in {"predict", "predict_proba", "inverse_transform", "version"}
    /\ LET pc == canary.reader.pc
           r  == canary.reader
       IN CASE pc = "predict" ->
                 canary' = IF canary.cfg.model = None
                           THEN [canary EXCEPT !.reader.pc = "idle",
                                               !.outcome = Returned("AttributeError")]
                           ELSE [canary EXCEPT !.reader.pc = "predict_proba",
                                               !.reader.model = canary.cfg.model]
            [] pc = "predict_proba" ->
                 canary' = IF canary.cfg.model = None
                           THEN [canary EXCEPT !.reader.pc = "idle",
                                               !.outcome = Returned("AttributeError")]
                           ELSE [canary EXCEPT !.reader.pc = "inverse_transform"]
            [] pc = "inverse_transform" ->
                 canary' = IF canary.cfg.label_encoder = None
                           THEN [canary EXCEPT !.reader.pc = "idle",
                                               !.outcome = Returned("AttributeError")]
                           ELSE [canary EXCEPT
                                   !.reader.pc = "version",
                                   !.reader.label_encoder = canary.cfg.label_encoder]
            [] pc = "version" ->
                 canary' = [canary EXCEPT
                              !.reader.pc = "idle",
                              !.outcome = [kind |-> "result", model |-> r.model,
                                           label_encoder |-> r.label_encoder,
                                           version |-> canary.cfg.version]]
    /\ UNCHANGED <<now, messages, rq, wk, nRetries, nEvents, nEvals, alerts, cs, conc, patch, pipe, notif, retried, drift>>

\* Lines 57-58 of record_classification run without an enable or disable in
\* between: what should_sample and evaluate then return.  Without features
\* neither is called.
CanaryOutcomes(cfg, features) ==
    IF ~features THEN {NoOutcome}
    ELSE IF ~cfg.enabled THEN {Returned("not_sampled")}
    ELSE (IF cfg.traffic_percent < 100 THEN {Returned("not_sampled")} ELSE {})
           \cup
         (IF cfg.traffic_percent > 0
          THEN {IF cfg.model = None \/ cfg.label_encoder = None
                THEN Returned("no_result")
                ELSE [kind |-> "result", model |-> cfg.model,
                      label_encoder |-> cfg.label_encoder, version |-> cfg.version]}
          ELSE {})

\* record_classification with a slip: a ModelEvaluationEvent is added whenever
\* the sampler fired, with or without a result of evaluate.
EvaluatedOnSample(tx, outcome) ==
    [tx EXCEPT !.evals = @ + (IF outcome.kind \in {"result", "no_result"} THEN 1 ELSE 0)]

\* record_classification, lines 59-71: the ModelEvaluationEvent is added when
\* evaluate returned a result.
Evaluated(tx, outcome) ==
    [tx EXCEPT !.evals = @ + (IF outcome.kind = "result" THEN 1 ELSE 0)]

(***************************************************************************)
(* Ingestion pipeline worker (services/ingest_pipeline.py).                *)
(***************************************************************************)
\* A worker: pc "batch" while a _process_batch transaction is open; cand are the
\* candidate ids still to visit, cur the message claimed and not yet processed,
\* rows the worker's uncommitted message rows, res the last answer of the
\* classifier, tx its detection-side writes.
NoResult == [prediction |-> None, confidence |-> 0, is_threat |-> FALSE]

IdleWorker ==
    [pc |-> "idle", cand |-> {}, cur |-> 0, rows |-> <<>>, processed |-> 0,
     res |-> NoResult, tx |-> EmptyTx]

\* The candidate SELECT with a slip: failed messages are not picked up again.
ClaimableQueuedOnly(row) ==
    /\ row.status = "queued"
    /\ row.attempts < ingest_max_attempts

\* The candidate SELECT: status in (queued, failed) and attempts < max.
Claimable(row) ==
    /\ row.status \in {"queued", "failed"}
    /\ row.attempts < ingest_max_attempts

\* The claiming UPDATE with a slip: no condition on the status.
ClaimMatchesAny(row) == row.status \in QueueStatus

\* The WHERE clause of the claiming UPDATE (besides id = message_id).
ClaimMatches(row) == row.status \in {"queued", "failed"}

\* The except branch with a slip: a failed attempt never dead-letters.
FailedStatusAlwaysFailed(attempts) == "failed"

\* The except branch with a slip: > where the code has >=.
FailedStatusStrict(attempts) ==
    IF attempts > ingest_max_attempts THEN "dead_letter" ELSE "failed"

\* The status the except branch gives a message whose attempt failed.
FailedStatus(attempts) ==
    IF attempts >= ingest_max_attempts THEN "dead_letter" ELSE "failed"

\* The end of the try block with a slip: last_error is not cleared.
DoneRowKeepsError(row) == [row EXCEPT !.status = "done"]

\* The end of the try block: message.status = done, message.last_error = None.
DoneRow(row) == [row EXCEPT !.status = "done", !.last_error = None]

\* The ips a queued payload carries.
PayloadIps(row) == [source_ip |-> "10.0.0.1", destination_ip |-> "10.0.0.2"]

Oldest(S) == {i \in S : \A j \in S : messages[i].created_at <= messages[j].created_at}

\* The candidate SELECT with a slip: no LIMIT.
BeginBatchNoLimit(w) ==
    LET eligible == {i \in DOMAIN messages : Claimable(messages[i])}
    IN wk' = [wk EXCEPT ![w] = [IdleWorker EXCEPT !.pc = "batch", !.cand = eligible]]

\* _process_batch, the candidate SELECT ... ORDER BY created_at LIMIT batch_size,
\* as the first statement of a batch run by thread w.
BeginBatch(w) ==
    LET eligible == {i \in DOMAIN messages : Claimable(messages[i])}
        n == IF Cardinality(eligible) < ingest_batch_size
             THEN Cardinality(eligible) ELSE ingest_batch_size
    IN \E S \in SUBSET eligible :
          /\ Cardinality(S) = n
          /\ \A x \in S, y \in eligible \ S :
                 messages[x].created_at <= messages[y].created_at
          /\ wk' = [wk EXCEPT ![w] = [IdleWorker EXCEPT !.pc = "batch", !.cand = S]]

\* A worker that keeps running: its loop calls _process_batch again.
SelectCandidates(w) ==
    /\ w <= conc.workers
    /\ wk[w].pc = "idle"
    /\ BeginBatch(w)
    /\ UNCHANGED <<now, messages, rq, nRetries, nEvents, nEvals, alerts, cs, conc, patch, pipe, notif, canary, retried, drift>>

\* _process_batch, the claiming UPDATE for the next candidate.  It waits while
\* another transaction holds the row; rowcount 0 skips the candidate.
ClaimNext(w) ==
    /\ wk[w].pc = "batch"
    /\ wk[w].cur = 0
    /\ \E id \in Oldest(wk[w].cand) :
          /\ ~Locked(id)
          /\ IF ClaimMatches(messages[id])
             THEN wk' = [wk EXCEPT
                    ![w].rows = (id :> [messages[id] EXCEPT !.status = "processing",
                                                            !.attempts = @ + 1]) @@ @,
                    ![w].cur = id,
                    ![w].processed = @ + 1]
             ELSE wk' = [wk EXCEPT ![w].cand = @ \ {id}]
    /\ UNCHANGED <<now, messages, rq, nRetries, nEvents, nEvals, alerts, cs, conc, patch, pipe, notif, canary, retried, drift>>

\* _process_batch, the try / except around one claimed message: the features
\* check or the classifier raises, or the classifier's result goes to
\* record_classification and the message is done.  The call is taken in one
\* step, which no enable or disable of the canary overlaps; ProcessMessageBegin
\* and ProcessMessageEnd take it in steps.
ProcessMessage(w) ==
    /\ wk[w].pc = "batch"
    /\ wk[w].cur # 0
    /\ LET id  == wk[w].cur
           row == wk[w].rows[id]
           ips == PayloadIps(row)
       IN \/ /\ notif' = notif
             /\ wk' = [wk EXCEPT
                    ![w].rows[id].last_error = "error",
                    ![w].rows[id].status = FailedStatus(row.attempts),
                    ![w].cur = 0,
                    ![w].cand = @ \ {id}]
          \/ \E res \in conc.classifier, outcome \in CanaryOutcomes(canary.cfg, TRUE) :
             \E out \in record_classification(wk[w].tx, res.prediction, res.confidence,
                                               res.is_threat, ips.source_ip,
                                               ips.destination_ip) :
                /\ row.features_ok
                /\ canary.writer.op = None
                /\ TxFits(out.tx)
                /\ notif' = notify_alert(out.notify)
                /\ wk' = [wk EXCEPT
                       ![w].tx = Evaluated(out.tx, outcome),
                       ![w].res = res,
                       ![w].rows[id] = DoneRow(row),
                       ![w].cur = 0,
                       ![w].cand = @ \ {id}]
    /\ UNCHANGED <<now, messages, rq, nRetries, nEvents, nEvals, alerts, cs, conc, patch, pipe, canary, retried, drift>>

\* _process_batch on a claimed message up to the canary lines of
\* record_classification: the features check passed, predict_single answered,
\* the ClassificationEvent is added and flushed.
ProcessMessageBegin(w) ==
    /\ wk[w].pc = "batch"
    /\ wk[w].cur # 0
    /\ wk[w].rows[wk[w].cur].features_ok
    /\ canary.reader.pc = "idle"
    /\ \A v \in Workers : wk[v].pc # "canary"
    /\ nEvents + wk[w].tx.events < MaxEvents
    /\ \E res \in conc.classifier :
          wk' = [wk EXCEPT ![w].pc = "canary", ![w].res = res, ![w].tx.events = @ + 1]
    /\ canary' = [canary EXCEPT !.reader = IdleReader, !.outcome = NoOutcome]
    /\ UNCHANGED <<now, messages, rq, nRetries, nEvents, nEvals, alerts, cs, conc, patch, pipe, notif, retried, drift>>

\* The canary's answer is in: an AttributeError out of evaluate goes to the
\* except branch of _process_batch, with the event already flushed; otherwise
\* record_classification goes on to the alert and the message is done.
ProcessMessageEnd(w) ==
    /\ wk[w].pc = "canary"
    /\ canary.reader.pc = "idle"
    /\ canary.outcome.kind \in {"not_sampled", "no_result", "result", "AttributeError"}
    /\ LET id  == wk[w].cur
           row == wk[w].rows[id]
           ips == PayloadIps(row)
           res == wk[w].res
           rest == [wk[w].tx EXCEPT !.events = @ - 1]
       IN IF canary.outcome.kind = "AttributeError"
          THEN /\ notif' = notif
               /\ wk' = [wk EXCEPT
                      ![w].pc = "batch",
                      ![w].rows[id].last_error = "error",
                      ![w].rows[id].status = FailedStatus(row.attempts),
                      ![w].cur = 0,
                      ![w].cand = @ \ {id}]
          ELSE \E out \in record_classification(rest, res.prediction, res.confidence,
                                                 res.is_threat, ips.source_ip,
                                                 ips.destination_ip) :
                  /\ TxFits(out.tx)
                  /\ notif' = notify_alert(out.notify)
                  /\ wk' = [wk EXCEPT
                         ![w].pc = "batch",
                         ![w].tx = Evaluated(out.tx, canary.outcome),
                         ![w].rows[id] = DoneRow(row),
                         ![w].cur = 0,
                         ![w].cand = @ \ {id}]
    /\ UNCHANGED <<now, messages, rq, nRetries, nEvents, nEvals, alerts, cs, conc, patch, pipe, canary, retried, drift>>

\* The abort with a slip: the claims and statuses written so far are committed
\* instead of rolled back.
ProcessMessageAbortsKeepsClaims(w) ==
    /\ wk[w].pc = "batch"
    /\ wk[w].cur # 0
    /\ messages' = [i \in DOMAIN messages |->
                       IF i \in DOMAIN wk[w].rows THEN wk[w].rows[i] ELSE messages[i]]
    /\ wk' = [wk EXCEPT ![w] = [IdleWorker EXCEPT !.pc = "raised",
                                                  !.processed = wk[w].processed]]
    /\ UNCHANGED <<now, rq, nRetries, nEvents, nEvals, alerts, cs, conc, patch, pipe, notif, canary, retried, drift>>

\* _process_batch when persistence raises inside record_classification
\* (db.flush fails): the session has rolled its transaction back, so the except
\* branch raises again on message.attempts, db_session rolls back and re-raises,
\* and _process_batch ends with the exception.  Every claim, status and event of
\* the batch is undone.
ProcessMessageAborts(w) ==
    /\ wk[w].pc = "batch"
    /\ wk[w].cur # 0
    /\ wk' = [wk EXCEPT ![w] = [IdleWorker EXCEPT !.pc = "raised",
                                                  !.processed = wk[w].processed]]
    /\ UNCHANGED <<now, messages, rq, nRetries, nEvents, nEvals, alerts, cs, conc, patch, pipe, notif, canary, retried, drift>>

\* db_session: the batch ends and its transaction commits; _process_batch
\* returns processed.
CommitBatch(w) ==
    /\ wk[w].pc = "batch"
    /\ wk[w].cur = 0
    /\ wk[w].cand = {}
    /\ messages' = [i \in DOMAIN messages |->
                       IF i \in DOMAIN wk[w].rows THEN wk[w].rows[i] ELSE messages[i]]
    /\ nEvents' = nEvents + wk[w].tx.events
    /\ nEvals' = nEvals + wk[w].tx.evals
    /\ alerts' = CommitAlerts(wk[w].tx)
    /\ wk' = [wk EXCEPT ![w] = [IdleWorker EXCEPT !.processed = wk[w].processed]]
    /\ UNCHANGED <<now, rq, nRetries, cs, conc, patch, pipe, notif, canary, retried, drift>>

(***************************************************************************)
(* API classification (routes/classify.py).                                *)
(***************************************************************************)
\* An API session: res is the classifier's answer the handler holds, features
\* whether its record_classification call was given the feature vector.
IdleSession ==
    [pc |-> "idle", features |-> FALSE, res |-> NoResult, alert_id |-> 0, tx |-> EmptyTx]

\* classify_single up to its db.commit(): predict_single, record_classification.
ClassifyCall(s) ==
    /\ cs[s].pc = "idle"
    /\ Cardinality({x \in Sessions : cs[x].pc # "idle"}) < conc.sessions
    /\ canary.writer.op = None
    /\ \E res \in conc.classifier, source_ip \in SourceIps, destination_ip \in DestinationIps,
          outcome \in CanaryOutcomes(canary.cfg, TRUE) :
       \E out \in record_classification(EmptyTx, res.prediction, res.confidence,
                                         res.is_threat, source_ip, destination_ip) :
          /\ TxFits(out.tx)
          /\ notif' = notify_alert(out.notify)
          /\ cs' = [cs EXCEPT ![s] = [pc |-> "commit", features |-> TRUE, res |-> res,
                                      alert_id |-> out.alert,
                                      tx |-> Evaluated(out.tx, outcome)]]
    /\ UNCHANGED <<now, messages, rq, wk, nRetries, nEvents, nEvals, alerts, conc, patch, pipe, canary, retried, drift>>

\* classify_sample up to its db.commit(), on a sample of one row:
\* record_classification is called without features, so the canary is not asked.
classify_sample(s) ==
    /\ cs[s].pc = "idle"
    /\ Cardinality({x \in Sessions : cs[x].pc # "idle"}) < conc.sessions
    /\ canary.writer.op = None
    /\ \E res \in conc.classifier, outcome \in CanaryOutcomes(canary.cfg, FALSE) :
       \E out \in record_classification(EmptyTx, res.prediction, res.confidence,
                                         res.is_threat, "sample", "sample") :
          /\ TxFits(out.tx)
          /\ notif' = notify_alert(out.notify)
          /\ cs' = [cs EXCEPT ![s] = [pc |-> "commit", features |-> FALSE, res |-> res,
                                      alert_id |-> out.alert,
                                      tx |-> Evaluated(out.tx, outcome)]]
    /\ UNCHANGED <<now, messages, rq, wk, nRetries, nEvents, nEvals, alerts, conc, patch, pipe, canary, retried, drift>>

\* classify_single, db.commit().
ClassifyCommit(s) ==
    /\ cs[s].pc = "commit"
    /\ TxFits(cs[s].tx)
    /\ nEvents' = nEvents + cs[s].tx.events
    /\ nEvals' = nEvals + cs[s].tx.evals
    /\ alerts' = CommitAlerts(cs[s].tx)
    /\ cs' = [cs EXCEPT ![s] = IdleSession]
    /\ UNCHANGED <<now, messages, rq, wk, nRetries, conc, patch, pipe, notif, canary, retried, drift>>

(***************************************************************************)
(* Alert status changes (routes/alerts.py; AlertsService.update_status is  *)
(* not part of the sources at hand and follows the transition table of     *)
(* the specification, section 4.4).                                        *)
(***************************************************************************)
\* The table with a slip: a resolved alert may go straight back to investigating.
AllowedTransitionsLoose(from) ==
    CASE from = "new" -> {"triaged", "investigating", "resolved", "false_positive"}
      [] from = "triaged" -> {"investigating", "resolved", "false_positive"}
      [] from = "investigating" -> {"resolved", "false_positive"}
      [] from = "resolved" -> {"triaged", "investigating"}
      [] from = "false_positive" -> {"triaged"}

AllowedTransitions(from) ==
    CASE from = "new" -> {"triaged", "investigating", "resolved", "false_positive"}
      [] from = "triaged" -> {"investigating", "resolved", "false_positive"}
      [] from = "investigating" -> {"resolved", "false_positive"}
      [] from = "resolved" -> {"triaged"}
      [] from = "false_positive" -> {"triaged"}

\* The test with a slip: any alert may be put back to new.
TransitionAcceptedBackToNew(from, to) ==
    to = from \/ to \in AllowedTransitions(from) \/ to = "new"

\* AlertsService.update_status: a same-state request is a no-op success, a
\* transition outside the table raises ValueError.
TransitionAccepted(from, to) == to = from \/ to \in AllowedTransitions(from)

\* No PATCH answered yet.
NoPatch == [code |-> 0, id |-> 0, from |-> None, to |-> None]

\* PATCH /alerts/{alert_id}/status: update_status returns None for an unknown
\* alert (404), raises ValueError for a transition outside the table (400, and
\* nothing is committed), else the status is changed and committed (200).
update_alert_status(id, status) ==
    /\ status \in AlertStatus
    /\ IF id \notin DOMAIN alerts
       THEN /\ patch' = [code |-> 404, id |-> id, from |-> None, to |-> status]
            /\ alerts' = alerts
       ELSE IF ~TransitionAccepted(alerts[id].status, status)
       THEN /\ patch' = [code |-> 400, id |-> id, from |-> alerts[id].status, to |-> status]
            /\ alerts' = alerts
       ELSE /\ patch' = [code |-> 200, id |-> id, from |-> alerts[id].status, to |-> status]
            /\ alerts' = [alerts EXCEPT
                              ![id].status = status,
                              ![id].updated_at = IF status = alerts[id].status THEN @ ELSE now]
    /\ UNCHANGED <<now, messages, rq, wk, nRetries, nEvents, nEvals, cs, conc, pipe, notif, canary, retried, drift>>

(***************************************************************************)
(* Worker lifecycle (IngestionPipeline.start, stop, _run_loop).  A task is *)
(* an asyncio task running _run_loop; task t runs its batches on thread t  *)
(* (asyncio.to_thread), whose state is wk[t].  A task is suspended when    *)
(* "created" (not yet run), "in_thread" (awaiting the batch) or "sleep".   *)
(***************************************************************************)
TaskPos == {"none", "created", "in_thread", "sleep", "exited", "cancelled", "failed"}

\* Nothing started: _running False, _task None, no stop() in progress.
StoppedPipeline ==
    [running |-> FALSE, task |-> 0, stop |-> "idle", awaited |-> 0,
     tasks |-> [t \in Workers |-> "none"], cancel |-> [t \in Workers |-> FALSE]]

\* A task slot is free when no task of that number is alive, its thread has
\* finished and no stop() awaits it.
FreeSlot(t) ==
    /\ pipe.tasks[t] \in {"none", "exited", "cancelled", "failed"}
    /\ wk[t].pc = "idle"
    /\ pipe.awaited # t

\* start(): a no-op while _running, else _running = True and a new task.
start ==
    /\ ~pipe.running
    /\ \E t \in Workers :
          /\ FreeSlot(t)
          /\ \A u \in Workers : u < t => ~FreeSlot(u)
          /\ pipe' = [pipe EXCEPT !.running = TRUE, !.task = t, !.tasks[t] = "created",
                                  !.cancel[t] = FALSE]
    /\ UNCHANGED <<now, messages, rq, wk, nRetries, nEvents, nEvals, alerts, cs, conc, patch, notif, canary, retried, drift>>

\* stop() up to its await: _running = False; with no task it returns, else the
\* task is cancelled and awaited.
stop ==
    /\ pipe.stop # "awaiting"
    /\ IF pipe.task = 0
       THEN pipe' = [pipe EXCEPT !.running = FALSE, !.stop = "returned"]
       ELSE pipe' = [pipe EXCEPT !.running = FALSE, !.stop = "awaiting",
                                 !.awaited = pipe.task,
                                 !.cancel[pipe.task] =
                                     pipe.tasks[pipe.task] \in {"created", "in_thread", "sleep"}]
    /\ UNCHANGED <<now, messages, rq, wk, nRetries, nEvents, nEvals, alerts, cs, conc, patch, notif, canary, retried, drift>>

\* A cancelled task is woken with CancelledError at the await it is suspended
\* on; the thread it awaited is not interrupted.
task_cancelled(t) ==
    /\ pipe.cancel[t]
    /\ pipe.tasks[t] \in {"created", "in_thread", "sleep"}
    /\ pipe' = [pipe EXCEPT !.tasks[t] = "cancelled", !.cancel[t] = FALSE]
    /\ UNCHANGED <<now, messages, rq, wk, nRetries, nEvents, nEvals, alerts, cs, conc, patch, notif, canary, retried, drift>>

\* stop() after its await: the awaited task is done; CancelledError is
\* swallowed, any other exception of the task leaves stop() after the finally
\* block, and _task = None in each case.
stop_return ==
    /\ pipe.stop = "awaiting"
    /\ pipe.tasks[pipe.awaited] \in {"exited", "cancelled", "failed"}
    /\ pipe' = [pipe EXCEPT !.stop = "returned", !.awaited = 0, !.task = 0]
    /\ UNCHANGED <<now, messages, rq, wk, nRetries, nEvents, nEvals, alerts, cs, conc, patch, notif, canary, retried, drift>>

\* _run_loop when the batch it awaits has raised: the exception comes out of
\* the await, nothing in _run_loop catches it, and the task ends with it.
\* _running and _task are left as they are.
run_loop_raises(t) ==
    /\ ~pipe.cancel[t]
    /\ pipe.tasks[t] = "in_thread"
    /\ wk[t].pc = "raised"
    /\ wk' = [wk EXCEPT ![t] = IdleWorker]
    /\ pipe' = [pipe EXCEPT !.tasks[t] = "failed"]
    /\ UNCHANGED <<now, messages, rq, nRetries, nEvents, nEvals, alerts, cs, conc, patch, notif, canary, retried, drift>>

\* _run_loop with a slip: "while True" in place of "while self._running".
runLoopIgnoresFlag(t) ==
    /\ ~pipe.cancel[t]
    /\ \/ /\ pipe.tasks[t] \in {"created", "sleep"}
          /\ wk[t].pc = "idle"
          /\ IF TRUE
             THEN BeginBatch(t) /\ pipe' = [pipe EXCEPT !.tasks[t] = "in_thread"]
             ELSE wk' = wk /\ pipe' = [pipe EXCEPT !.tasks[t] = "exited"]
       \/ /\ pipe.tasks[t] = "in_thread"
          /\ wk[t].pc = "idle"
          /\ IF wk[t].processed = 0
             THEN wk' = wk /\ pipe' = [pipe EXCEPT !.tasks[t] = "sleep"]
             ELSE IF TRUE
             THEN BeginBatch(t) /\ pipe' = [pipe EXCEPT !.tasks[t] = "in_thread"]
             ELSE wk' = wk /\ pipe' = [pipe EXCEPT !.tasks[t] = "exited"]
    /\ UNCHANGED <<now, messages, rq, nRetries, nEvents, nEvals, alerts, cs, conc, patch, notif, canary, retried, drift>>

\* _run_loop, one resumption of task t: the while test, then the next batch is
\* handed to the thread; after a batch that processed nothing the task sleeps.
run_loop(t) ==
    /\ ~pipe.cancel[t]
    /\ \/ /\ pipe.tasks[t] \in {"created", "sleep"}
          /\ wk[t].pc = "idle"
          /\ IF pipe.running
             THEN BeginBatch(t) /\ pipe' = [pipe EXCEPT !.tasks[t] = "in_thread"]
             ELSE wk' = wk /\ pipe' = [pipe EXCEPT !.tasks[t] = "exited"]
       \/ /\ pipe.tasks[t] = "in_thread"
          /\ wk[t].pc = "idle"
          /\ IF wk[t].processed = 0
             THEN wk' = wk /\ pipe' = [pipe EXCEPT !.tasks[t] = "sleep"]
             ELSE IF pipe.running
             THEN BeginBatch(t) /\ pipe' = [pipe EXCEPT !.tasks[t] = "in_thread"]
             ELSE wk' = wk /\ pipe' = [pipe EXCEPT !.tasks[t] = "exited"]
    /\ UNCHANGED <<now, messages, rq, nRetries, nEvents, nEvals, alerts, cs, conc, patch, notif, canary, retried, drift>>

(***************************************************************************)
(* Drift detector (services/drift_service.py).  Probabilities, logarithms  *)
(* and scores are fixed-point numbers, Unit standing for 1.0.              *)
(***************************************************************************)
Unit == 1024

\* settings.drift_alert_threshold (0.2), in thousandths.
drift_alert_threshold == 200

\* settings.drift_window_events (default 500) and the floor of the window (50),
\* scaled down.
drift_window_events == 3

drift_min_window == 2

\* The classification events on record, at most.
MaxHistory == 7

MaxCanaryRows == 2

\* The longest window the divergence is computed on by itself.
MaxWindow == 4

Labels == {"BENIGN", "DDoS"}

NoDrift ==
    [predictions |-> <<>>, canary_rows |-> <<>>, window_events |-> <<>>,
     report |-> [status |-> None]]

Count(values, label) == Cardinality({i \in DOMAIN values : values[i] = label})

\* _distribution: label -> count / total over the labels that occur.
Distribution(values) ==
    [label \in Range(values) |-> (Count(values, label) * Unit) \div Len(values)]

Prob(dist, label) == IF label \in DOMAIN dist THEN dist[label] ELSE 0

RECURSIVE Log2Frac(_, _)
\* The fraction bits of log2(x / Unit) for Unit <= x < 2 * Unit, by squaring.
Log2Frac(x, weight) ==
    IF weight = 0 THEN 0
    ELSE LET sq == (x * x) \div Unit
         IN IF sq >= 2 * Unit
            THEN weight + Log2Frac(sq \div 2, weight \div 2)
            ELSE Log2Frac(sq, weight \div 2)

RECURSIVE Log2(_)
\* math.log2(x / Unit) for x > 0.
Log2(x) ==
    IF x >= 2 * Unit THEN Unit + Log2(x \div 2)
    ELSE IF x < Unit THEN Log2(2 * x) - Unit
    ELSE Log2Frac(x, Unit \div 2)

RECURSIVE kl(_, _, _)
\* _kl: the sum of av * log2(av / bv) over the labels with av > 0 and bv > 0.
kl(a, b, labels) ==
    IF labels = {} THEN 0
    ELSE LET label == CHOOSE l \in labels : TRUE
             av    == Prob(a, label)
             bv    == Prob(b, label)
             term  == IF av > 0 /\ bv > 0
                      THEN (av * Log2((av * Unit) \div bv)) \div Unit
                      ELSE 0
         IN term + kl(a, b, labels \ {label})

RECURSIVE SqrtBetween(_, _, _)
\* The largest r in lo..hi with r * r <= n, by bisection.
SqrtBetween(lo, hi, n) ==
    IF lo >= hi THEN lo
    ELSE LET mid == (lo + hi + 1) \div 2
         IN IF mid * mid <= n THEN SqrtBetween(mid, hi, n)
            ELSE SqrtBetween(lo, mid - 1, n)

\* math.sqrt of a fixed-point number in 0..Unit.
Sqrt(x) == SqrtBetween(0, Unit, x * Unit)

\* _jensen_shannon with a slip: the divergence of p from the mixture alone.
jensenShannonOneSided(p, q) ==
    LET labels == DOMAIN p \cup DOMAIN q
        m      == [label \in labels |-> (Prob(p, label) + Prob(q, label)) \div 2]
        value  == kl(p, m, labels)
    IN IF labels = {} THEN 0
       ELSE Sqrt(IF value > 0 THEN value ELSE 0)

\* _jensen_shannon: sqrt(max((kl(p, m) + kl(q, m)) / 2, 0)), m the mean of p, q.
jensen_shannon(p, q) ==
    LET labels == DOMAIN p \cup DOMAIN q
        m      == [label \in labels |-> (Prob(p, label) + Prob(q, label)) \div 2]
        value  == (kl(p, m, labels) + kl(q, m, labels)) \div 2
    IN IF labels = {} THEN 0
       ELSE Sqrt(IF value > 0 THEN value ELSE 0)

\* The window with a slip: no floor.
WindowNoFloor(window_events) ==
    IF window_events = <<>> \/ window_events = <<0>>
    THEN drift_window_events
    ELSE window_events[1]

\* get_drift_report, lines 46-48: "window_events or default", at least the
\* floor.  A request is <<>> (no window given) or <<n>>.
Window(window_events) ==
    LET window == IF window_events = <<>> \/ window_events = <<0>>
                  THEN drift_window_events
                  ELSE window_events[1]
    IN IF window < drift_min_window THEN drift_min_window ELSE window

Take(rows, n) == SubSeq(rows, 1, IF Len(rows) < n THEN Len(rows) ELSE n)

\* get_drift_report on the rows on record, newest first.
DriftReport(all_predictions, all_canary_rows, window_events) ==
    LET window      == Window(window_events)
        predictions == Take(all_predictions, window * 2)
        current     == SubSeq(predictions, 1, window)
        baseline    == SubSeq(predictions, window + 1, window * 2)
        js_score    == jensen_shannon(Distribution(current), Distribution(baseline))
        canary_rows == Take(all_canary_rows, window)
        diverged    == Cardinality({i \in DOMAIN canary_rows : canary_rows[i]})
        is_alert    == \/ js_score * 1000 >= drift_alert_threshold * Unit
                       \/ /\ canary_rows # <<>>
                          /\ diverged * 1000 >= drift_alert_threshold * Len(canary_rows)
    IN IF Len(predictions) < window * 2
       THEN [status |-> "insufficient_data",
             required_events |-> window * 2,
             available_events |-> Len(predictions),
             prediction_js_divergence |-> None,
             canary_divergence_rate |-> None]
       ELSE [status |-> IF is_alert THEN "alert" ELSE "ok",
             window_events |-> window,
             threshold |-> drift_alert_threshold,
             prediction_js_divergence |-> <<js_score>>,
             canary_divergence_rate |->
                 IF canary_rows = <<>> THEN None
                 ELSE <<(diverged * Unit) \div Len(canary_rows)>>,
             current_distribution |-> Distribution(current),
             baseline_distribution |-> Distribution(baseline)]

\* get_drift_report, lines 67-69, on any two windows: the score of current
\* against baseline, and of baseline against current.
score_windows ==
    /\ drift.report.status = None
    /\ drift' = [drift EXCEPT
          !.report = [status |-> "scored",
                      forward |-> jensen_shannon(Distribution(drift.current),
                                                 Distribution(drift.baseline)),
                      backward |-> jensen_shannon(Distribution(drift.baseline),
                                                  Distribution(drift.current))]]
    /\ UNCHANGED <<now, messages, rq, wk, nRetries, nEvents, nEvals, alerts, cs, conc, patch, pipe, notif, canary, retried>>

\* GET /model/drift.
get_drift_report(window_events) ==
    /\ drift' = [drift EXCEPT
                   !.window_events = window_events,
                   !.report = DriftReport(drift.predictions, drift.canary_rows,
                                          window_events)]
    /\ UNCHANGED <<now, messages, rq, wk, nRetries, nEvents, nEvals, alerts, cs, conc, patch, pipe, notif, canary, retried>>

Tick ==
    /\ now < MaxTime
    /\ now' = now + 1
    /\ UNCHANGED <<messages, rq, wk, nRetries, nEvents, nEvals, alerts, cs, conc, patch, pipe, notif, canary, retried, drift>>

(***************************************************************************)
(* Specifications.                                                         *)
(***************************************************************************)
\* The (status, attempts, last_error) a committed row can carry.
RowStates ==
    {[status |-> "queued", attempts |-> 0, last_error |-> None]}
    \cup {[status |-> "failed", attempts |-> a, last_error |-> "error"] :
            a \in 1..(ingest_max_attempts - 1)}
    \cup {[status |-> "done", attempts |-> a, last_error |-> None] :
            a \in 1..ingest_max_attempts}
    \cup {[status |-> "dead_letter", attempts |-> ingest_max_attempts,
           last_error |-> "error"]}

StoredFlows == <<[flow_id |-> "f0", content |-> "c1"],
                 [flow_id |-> "f1", content |-> "c1"],
                 [flow_id |-> None, content |-> "c1"]>>

\* Stores of at most n rows that earlier requests and batches left behind at
\* time 0: row i was enqueued from StoredFlows[i] by source "s1".
Stores(n) ==
    UNION {{[i \in 1..k |->
               [source |-> "s1",
                idempotency_key |-> flow_idempotency_key("s1", StoredFlows[i]),
                status |-> st[i].status, attempts |-> st[i].attempts,
                last_error |-> st[i].last_error, created_at |-> 0,
                features_ok |-> TRUE]] :
            st \in [1..k -> RowStates]} : k \in 0..n}

Benign == {c \in ClassifierResults : ~c.is_threat}

Critical == {c \in ClassifierResults : c.is_threat /\ c.confidence >= 95}

InitBase(c, stores, sinks) ==
    /\ now = 0
    /\ messages \in stores
    /\ rq = [r \in Sessions |-> IdleRequest]
    /\ wk = [w \in Workers |-> IdleWorker]
    /\ nRetries = 0
    /\ nEvents = 0
    /\ nEvals = 0
    /\ retried = NoRetry
    /\ alerts = <<>>
    /\ cs = [s \in Sessions |-> IdleSession]
    /\ conc = c
    /\ patch = NoPatch
    /\ pipe = StoppedPipeline
    /\ notif \in sinks
    /\ canary = NewCanary

\* No classification is on record and no drift report was asked for.
InitEnv(c, stores, sinks) == InitBase(c, stores, sinks) /\ drift = NoDrift

\* No notification sink is configured unless a specification says so.
InitWith(c, stores) == InitEnv(c, stores, {NoSinks})

\* The ingest routes: one enqueue request at a time and the operator's
\* retries, over a store the worker has already been through.
Init ==
    InitWith([workers |-> 0, requests |-> 1, sessions |-> 0, classifier |-> Benign],
             Stores(1))

Next ==
    \/ \E r \in Sessions : EnqCheck(r)
    \/ \E r \in Sessions : EnqReadKeys(r)
    \/ \E r \in Sessions : EnqCommit(r)
    \/ \E id \in 1..MaxMessages : retry_dead_letter(id)

Spec == Init /\ [][Next]_vars

\* Flows as a client may post them: flow_id absent, empty, an identifier, or a
\* string of hex digits; two contents; metadata of any kind.
KeyFlowIds == {None, "", "f1", "f2", Digest("c1")}

KeyContents == {"c1", "c2"}

KeyMetadata == {"m1", "m2"}

KeyPayload == [flow_id : KeyFlowIds, content : KeyContents, metadata : KeyMetadata]

\* A request of two flows from one source, before the keys are computed.
InitKeys ==
    /\ now = 0
    /\ messages = <<>>
    /\ wk = [w \in Workers |-> IdleWorker]
    /\ nRetries = 0
    /\ nEvents = 0
    /\ nEvals = 0
    /\ retried = NoRetry
    /\ alerts = <<>>
    /\ cs = [s \in Sessions |-> IdleSession]
    /\ conc = [workers |-> 0, requests |-> 1, sessions |-> 0, classifier |-> Benign]
    /\ patch = NoPatch
    /\ pipe = StoppedPipeline
    /\ notif = NoSinks
    /\ canary = NewCanary
    /\ drift = NoDrift
    /\ \E source \in Sources, flows \in [1..2 -> KeyPayload] :
          rq = [r \in Sessions |->
                   IF r = 1
                   THEN [IdleRequest EXCEPT !.pc = "flows", !.source = source,
                                            !.flows = flows]
                   ELSE IdleRequest]

\* _flow_idempotency_key applied to each flow of the request, as the loop of
\* ingest_flows does.
key_flows(r) ==
    /\ rq[r].pc = "flows"
    /\ rq' = [rq EXCEPT ![r].pc = "keyed",
                        ![r].existing_keys =
                            {flow_idempotency_key(rq[r].source, rq[r].flows[i]) :
                                i \in DOMAIN rq[r].flows}]
    /\ UNCHANGED <<now, messages, wk, nRetries, nEvents, nEvals, alerts, cs, conc, patch, pipe, notif, canary, retried, drift>>

SpecKeys == InitKeys /\ [][\E r \in Sessions : key_flows(r)]_vars

\* Enqueue requests, one at a time, over the idempotency window.
InitEnqueue ==
    InitWith([workers |-> 0, requests |-> 1, sessions |-> 0, classifier |-> Benign],
             Stores(1))

NextEnqueue ==
    \/ \E r \in Sessions : EnqCheck(r)
    \/ \E r \in Sessions : EnqReadKeys(r)
    \/ \E r \in Sessions : EnqCommit(r)
    \/ Tick

SpecEnqueue == InitEnqueue /\ [][NextEnqueue]_vars

\* Single-flow requests of two sources over a store that holds the message of
\* flow f1 from source s1, in any status, enqueued at time 0.
SuppressStores ==
    {<<[NewMessage("s1", flow_idempotency_key("s1", StoredFlows[2]), 0) EXCEPT
           !.status = st.status, !.attempts = st.attempts,
           !.last_error = st.last_error]>> : st \in RowStates}

InitSuppress ==
    InitWith([workers |-> 0, requests |-> 1, sessions |-> 0, classifier |-> Benign],
             SuppressStores)

NextSuppress ==
    \/ \E r \in Sessions : EnqCheckOne(r)
    \/ \E r \in Sessions : EnqReadKeys(r)
    \/ \E r \in Sessions : EnqCommit(r)
    \/ Tick

SpecSuppress == InitSuppress /\ [][NextSuppress]_vars

\* Enqueue requests served by two processes at once.
InitEnqueueRace ==
    InitWith([workers |-> 0, requests |-> 2, sessions |-> 0, classifier |-> Benign],
             Stores(1))

SpecEnqueueRace == InitEnqueueRace /\ [][NextEnqueue]_vars

\* Two workers (two instances of the service) over one store, and retries.
InitWorkers ==
    InitWith([workers |-> 2, requests |-> 0, sessions |-> 0,
              classifier |-> Benign \cup Critical],
             Stores(2))

NextWorkers ==
    \/ \E id \in 1..MaxMessages : retry_dead_letter(id)
    \/ \E w \in Workers : SelectCandidates(w)
    \/ \E w \in Workers : ClaimNext(w)
    \/ \E w \in Workers : ProcessMessage(w)
    \/ \E w \in Workers : CommitBatch(w)

SpecWorkers == InitWorkers /\ [][NextWorkers]_vars

\* Stores of three rows enqueued at different times, the second row first.
ClaimStores ==
    {[i \in 1..3 |->
        [source |-> "s1",
         idempotency_key |-> flow_idempotency_key("s1", StoredFlows[i]),
         status |-> st[i].status, attempts |-> st[i].attempts,
         last_error |-> st[i].last_error,
         created_at |-> IF i = 1 THEN 1 ELSE IF i = 2 THEN 0 ELSE 2,
         features_ok |-> TRUE]] :
     st \in [1..3 -> RowStates]}

\* Two workers over three stored messages of different ages, and retries.
InitClaims ==
    InitWith([workers |-> 2, requests |-> 0, sessions |-> 0, classifier |-> Benign],
             ClaimStores)

SpecClaims == InitClaims /\ [][NextWorkers]_vars

\* The single worker of one process: _run_loop keeps calling _process_batch,
\* and a batch that has started runs to its commit.
InitWorker ==
    InitWith([workers |-> 1, requests |-> 0, sessions |-> 0,
              classifier |-> Benign \cup Critical],
             Stores(2))

FairSpec ==
    /\ InitWorker
    /\ [][NextWorkers]_vars
    /\ WF_vars(SelectCandidates(1))
    /\ WF_vars(ClaimNext(1))
    /\ WF_vars(ProcessMessage(1))
    /\ WF_vars(CommitBatch(1))

\* record_classification calls through the API, one at a time.
InitClassify ==
    InitWith([workers |-> 0, requests |-> 0, sessions |-> 1,
              classifier |-> ClassifierResults],
             {<<>>})

NextClassify ==
    \/ \E s \in Sessions : ClassifyCall(s)
    \/ \E s \in Sessions : ClassifyCommit(s)
    \/ Tick

SpecClassify == InitClassify /\ [][NextClassify]_vars

\* Threats of two attack types with confidences on, just under and above the
\* three thresholds.
ThresholdConfidences == {0, 79, 80, 89, 90, 94, 95, 100}

ThresholdResults ==
    [prediction : {"DDoS", "PortScan"}, confidence : ThresholdConfidences,
     is_threat : {TRUE}]

InitSeverity ==
    InitWith([workers |-> 0, requests |-> 0, sessions |-> 1,
              classifier |-> ThresholdResults],
             {<<>>})

NextSeverity ==
    \/ \E s \in Sessions : ClassifyCall(s)
    \/ \E s \in Sessions : ClassifyCommit(s)

SpecSeverity == InitSeverity /\ [][NextSeverity]_vars

\* Threat classifications over a table that already holds alerts: a DDoS alert
\* in any status, alone or next to a new PortScan alert, all recorded at time 0.
Threats == {c \in ClassifierResults : c.is_threat}

MergeTables ==
    LET ddos(st) == [NewAlert(<<"DDoS", "10.0.0.1", "10.0.0.2">>, 93, 0) EXCEPT !.status = st]
        scan     == NewAlert(<<"PortScan", "10.0.0.1", "10.0.0.2">>, 93, 0)
    IN {<<ddos(st)>> : st \in AlertStatus} \cup {<<ddos(st), scan>> : st \in AlertStatus}

InitMerge ==
    /\ now = 0
    /\ messages = <<>>
    /\ rq = [r \in Sessions |-> IdleRequest]
    /\ wk = [w \in Workers |-> IdleWorker]
    /\ nRetries = 0
    /\ nEvents = 0
    /\ nEvals = 0
    /\ retried = NoRetry
    /\ alerts \in MergeTables
    /\ cs = [s \in Sessions |-> IdleSession]
    /\ conc = [workers |-> 0, requests |-> 0, sessions |-> 1, classifier |-> Threats]
    /\ patch = NoPatch
    /\ pipe = StoppedPipeline
    /\ notif = NoSinks
    /\ canary = NewCanary
    /\ drift = NoDrift

SpecMerge == InitMerge /\ [][NextClassify]_vars

\* The same with the analysts' status changes.
InitAlerts ==
    InitWith([workers |-> 0, requests |-> 0, sessions |-> 1, classifier |-> Critical],
             {<<>>})

NextAlerts ==
    \/ \E s \in Sessions : ClassifyCall(s)
    \/ \E s \in Sessions : ClassifyCommit(s)
    \/ \E id \in 1..MaxAlerts, status \in AlertStatus : update_alert_status(id, status)
    \/ Tick

SpecAlerts == InitAlerts /\ [][NextAlerts]_vars

\* The analysts' status changes on the alerts of critical threats, with the
\* clock at rest.
NextTriage ==
    \/ \E s \in Sessions : ClassifyCall(s)
    \/ \E s \in Sessions : ClassifyCommit(s)
    \/ \E id \in 1..MaxAlerts, status \in AlertStatus : update_alert_status(id, status)

SpecTriage == InitAlerts /\ [][NextTriage]_vars

\* DDoS threats of every confidence recorded one call at a time, with the
\* analysts' status changes of the first alert in between.
InitGrades ==
    InitWith([workers |-> 0, requests |-> 0, sessions |-> 1,
              classifier |-> {c \in Threats : c.prediction = "DDoS"}],
             {<<>>})

NextGrades ==
    \/ \E s \in Sessions : ClassifyCall(s)
    \/ \E s \in Sessions : ClassifyCommit(s)
    \/ \E status \in AlertStatus : update_alert_status(1, status)

SpecGrades == InitGrades /\ [][NextGrades]_vars

\* The worker thread and an API classify request, each in its own session.
InitAlertRace ==
    InitWith([workers |-> 1, requests |-> 0, sessions |-> 1, classifier |-> Critical],
             {st \in Stores(1) : \A i \in DOMAIN st : st[i].status = "queued"})

NextAlertRace ==
    \/ \E w \in Workers : SelectCandidates(w)
    \/ \E w \in Workers : ClaimNext(w)
    \/ \E w \in Workers : ProcessMessage(w)
    \/ \E w \in Workers : CommitBatch(w)
    \/ \E s \in Sessions : ClassifyCall(s)
    \/ \E s \in Sessions : ClassifyCommit(s)
    \/ Tick

SpecAlertRace == InitAlertRace /\ [][NextAlertRace]_vars

\* The lifespan of the application: start(), the run loop and its batches on
\* the thread, and stop().
InitLifecycle ==
    InitWith([workers |-> 0, requests |-> 0, sessions |-> 0, classifier |-> Benign],
             Stores(2))

NextLifecycle ==
    \/ start
    \/ stop
    \/ stop_return
    \/ \E t \in Workers : task_cancelled(t)
    \/ \E t \in Workers : run_loop(t)
    \/ \E w \in Workers : ClaimNext(w)
    \/ \E w \in Workers : ProcessMessage(w)
    \/ \E w \in Workers : CommitBatch(w)

SpecLifecycle == InitLifecycle /\ [][NextLifecycle]_vars

\* The worker's lifecycle over a store whose writes can fail.
NextCrash ==
    \/ start
    \/ stop
    \/ stop_return
    \/ \E t \in Workers : task_cancelled(t)
    \/ \E t \in Workers : run_loop(t)
    \/ \E t \in Workers : run_loop_raises(t)
    \/ \E w \in Workers : ClaimNext(w)
    \/ \E w \in Workers : ProcessMessage(w)
    \/ \E w \in Workers : ProcessMessageAborts(w)
    \/ \E w \in Workers : CommitBatch(w)

SpecCrash == InitLifecycle /\ [][NextCrash]_vars

\* One worker over a store whose writes can fail.
InitStorageFaults ==
    InitWith([workers |-> 1, requests |-> 0, sessions |-> 0,
              classifier |-> Benign \cup Critical],
             Stores(2))

NextStorageFaults ==
    \/ \E w \in Workers : SelectCandidates(w)
    \/ \E w \in Workers : ClaimNext(w)
    \/ \E w \in Workers : ProcessMessage(w)
    \/ \E w \in Workers : ProcessMessageAborts(w)
    \/ \E w \in Workers : CommitBatch(w)

SpecStorageFaults == InitStorageFaults /\ [][NextStorageFaults]_vars

\* One worker over messages written to the queue table with a payload whose
\* features are not a list of 78 values.
MalformedStores ==
    UNION {{[i \in 1..k |->
               [NewMessage("s1", flow_idempotency_key("s1", StoredFlows[i]), 0)
                   EXCEPT !.features_ok = ok[i]]] :
            ok \in [1..k -> BOOLEAN]} : k \in 1..2}

InitMalformed ==
    InitWith([workers |-> 1, requests |-> 0, sessions |-> 0,
              classifier |-> Benign \cup Critical],
             MalformedStores)

SpecMalformed == InitMalformed /\ [][NextWorkers]_vars

\* Classifications by the worker and by an API session with any configuration
\* of the notification sinks, and the _send threads.
InitNotify ==
    InitEnv([workers |-> 1, requests |-> 0, sessions |-> 1,
             classifier |-> {c \in ClassifierResults : c.prediction # "PortScan"}],
            {st \in Stores(1) : \A i \in DOMAIN st : st[i].status = "queued"},
            {[NoSinks EXCEPT !.webhook = w, !.slack = k] : w \in BOOLEAN, k \in BOOLEAN})

NextNotify ==
    \/ \E w \in Workers : SelectCandidates(w)
    \/ \E w \in Workers : ClaimNext(w)
    \/ \E w \in Workers : ProcessMessage(w)
    \/ \E w \in Workers : CommitBatch(w)
    \/ \E s \in Sessions : ClassifyCall(s)
    \/ \E s \in Sessions : ClassifyCommit(s)
    \/ \E okWebhook \in BOOLEAN, okSlack \in BOOLEAN : send(okWebhook, okSlack)

SpecNotify == InitNotify /\ [][NextNotify]_vars

\* The canary service: enable and disable calls of the operator against the
\* worker's should_sample and evaluate calls.
InitCanary ==
    InitWith([workers |-> 0, requests |-> 0, sessions |-> 0, classifier |-> Benign],
             {<<>>})

NextCanary ==
    \/ \E model_path \in Artifacts, traffic_percent \in TrafficPercents :
          enable(model_path, traffic_percent)
    \/ enable_assign
    \/ disable
    \/ disable_assign
    \/ writer_return
    \/ should_sample
    \/ should_sample_draw
    \/ evaluate_guard
    \/ evaluate_body

SpecCanary == InitCanary /\ [][NextCanary]_vars

\* Classification while the operator enables and disables the canary: the
\* worker's record_classification calls read the canary attribute by
\* attribute, those of the API run between two calls of the operator.
InitShadow ==
    InitWith([workers |-> 1, requests |-> 0, sessions |-> 1, classifier |-> Benign],
             {st \in Stores(1) : \A i \in DOMAIN st : st[i].status = "queued"})

NextShadow ==
    \/ \E w \in Workers : SelectCandidates(w)
    \/ \E w \in Workers : ClaimNext(w)
    \/ \E w \in Workers : ProcessMessageBegin(w)
    \/ \E w \in Workers : ProcessMessageEnd(w)
    \/ \E w \in Workers : CommitBatch(w)
    \/ \E s \in Sessions : ClassifyCall(s)
    \/ \E s \in Sessions : classify_sample(s)
    \/ \E s \in Sessions : ClassifyCommit(s)
    \/ \E model_path \in {"v1", "no_encoder"}, traffic_percent \in {5, 100} :
          enable(model_path, traffic_percent)
    \/ enable_assign
    \/ disable
    \/ disable_assign
    \/ writer_return
    \/ (\E w \in Workers : wk[w].pc = "canary") /\ canary.outcome.kind = None /\ should_sample
    \/ should_sample_draw
    \/ evaluate_guard
    \/ evaluate_body

SpecShadow == InitShadow /\ [][NextShadow]_vars

\* Drift reports over the classification and evaluation events on record.
WindowRequests == {<<>>} \cup {<<n>> : n \in -1..(drift_window_events + 1)}

InitDrift ==
    /\ InitBase([workers |-> 0, requests |-> 0, sessions |-> 0, classifier |-> Benign],
                {<<>>}, {NoSinks})
    /\ \E predictions \in {<<>>} \cup SeqsUpTo(Labels, MaxHistory),
          canary_rows \in {<<>>} \cup SeqsUpTo(BOOLEAN, MaxCanaryRows) :
          drift = [NoDrift EXCEPT !.predictions = predictions,
                                  !.canary_rows = canary_rows]

NextDrift == \E window_events \in WindowRequests : get_drift_report(window_events)

SpecDrift == InitDrift /\ [][NextDrift]_vars

\* The divergence of any two windows of labels.
InitWindows ==
    /\ InitBase([workers |-> 0, requests |-> 0, sessions |-> 0, classifier |-> Benign],
                {<<>>}, {NoSinks})
    /\ \E current \in {<<>>} \cup SeqsUpTo(Labels \cup {"PortScan"}, MaxWindow),
          baseline \in {<<>>} \cup SeqsUpTo(Labels \cup {"PortScan"}, MaxWindow) :
          drift = [current |-> current, baseline |-> baseline,
                   report |-> [status |-> None]]

SpecWindows == InitWindows /\ [][score_windows]_vars

(***************************************************************************)
(* Properties of the ingestion queue.                                      *)
(***************************************************************************)
\* C1: claiming is exclusive.  With two _process_batch calls running at once
\* over the same messages, (a) no message is held as claimed by both; (b) a
\* claim succeeds only on a message whose committed status is queued or failed,
\* flips it to processing and adds one to attempts; (c) a candidate whose
\* conditional update matches no row is dropped without being processed: the
\* caller's rows, detection writes and processed count stay as they were;
\* (d) when a batch commits, every message it claimed still has the committed
\* status and attempts the claim found, so no attempt is processed twice.
C1_ExclusiveClaim ==
    /\ [](\A w1 \in Workers, w2 \in Workers :
            w1 # w2 => DOMAIN wk[w1].rows \cap DOMAIN wk[w2].rows = {})
    /\ [][\A w \in Workers, id \in 1..MaxMessages :
            /\ (id \notin DOMAIN wk[w].rows /\ id \in DOMAIN wk'[w].rows)
                 => /\ messages[id].status \in {"queued", "failed"}
                    /\ wk'[w].rows[id].status = "processing"
                    /\ wk'[w].rows[id].attempts = messages[id].attempts + 1
                    /\ wk'[w].processed = wk[w].processed + 1
            /\ (wk[w].pc = "batch" /\ wk[w].cur = 0
                  /\ id \in wk[w].cand /\ id \notin wk'[w].cand)
                 => /\ messages[id].status \notin {"queued", "failed"}
                    /\ wk'[w].rows = wk[w].rows
                    /\ wk'[w].tx = wk[w].tx
                    /\ wk'[w].processed = wk[w].processed
            /\ (id \in DOMAIN wk[w].rows /\ wk'[w].pc = "idle")
                 => /\ messages[id].status \in {"queued", "failed"}
                    /\ wk[w].rows[id].attempts = messages[id].attempts + 1
                    /\ messages'[id] = wk[w].rows[id]
         ]_vars

\* C1, witness: one worker holds a claimed message that is still among the
\* candidates of the other worker's open batch.
C1_Witness ==
    \E w1 \in Workers, w2 \in Workers :
        /\ w1 # w2
        /\ wk[w2].pc = "batch"
        /\ \E id \in DOMAIN wk[w1].rows : id \in wk[w2].cand

\* C2: the queue depth (messages queued, processing or failed) never exceeds
\* ingest_max_queue_depth.
C2_DepthBounded == QueueDepth(messages) <= ingest_max_queue_depth

\* C3: a request rejected for backpressure was rejected because depth >= max or
\* depth + flows > max, and the step that rejects it leaves the stored messages
\* exactly as they were.
C3_RejectAddsNothing ==
    [][\A r \in Sessions :
          (rq'[r] # rq[r] /\ rq'[r].pc = "rejected")
            => /\ messages' = messages
               /\ \/ QueueDepth(messages) >= ingest_max_queue_depth
                  \/ QueueDepth(messages) + Len(rq'[r].flows) > ingest_max_queue_depth
      ]_vars

\* C3, witness: a request was rejected while the store holds a message.
C3_Witness ==
    \E r \in Sessions :
        /\ rq[r].pc = "rejected"
        /\ Len(rq[r].flows) > 0
        /\ Len(messages) > 0

\* C4, as amended: a request that passes the backpressure check and runs with no
\* other enqueue request beside it (a) reads as existing exactly the keys of its
\* source's messages created inside the idempotency window; (b) at commit adds
\* one message for each key not read as existing, however often the request
\* repeats it, and none for a key read as existing; (c) counts every other
\* occurrence in duplicates_skipped, so queued + duplicates_skipped is the number
\* of flows; and (d) two stored messages of one source with the same key are
\* always more than a window apart.
C4_DuplicateSkipped ==
    /\ [](\A i \in DOMAIN messages, j \in DOMAIN messages :
            (/\ i < j
             /\ messages[i].source = messages[j].source
             /\ messages[i].idempotency_key = messages[j].idempotency_key)
              => messages[j].created_at - messages[i].created_at
                    > ingest_idempotency_window_minutes)
    /\ [][\A r \in Sessions :
            /\ (rq[r].pc = "keys" /\ rq'[r].pc = "insert")
                 => rq'[r].existing_keys =
                      {messages[i].idempotency_key : i \in {j \in DOMAIN messages :
                          /\ messages[j].source = rq[r].source
                          /\ now - messages[j].created_at
                                <= ingest_idempotency_window_minutes}}
            /\ (rq[r].pc = "insert" /\ rq'[r].pc = "done")
                 => LET flows  == rq[r].flows
                        key(i) == flow_idempotency_key(rq[r].source, flows[i])
                        dups   == {i \in DOMAIN flows :
                                     \/ key(i) \in rq[r].existing_keys
                                     \/ \E j \in 1..(i - 1) : key(j) = key(i)}
                        added  == (Len(messages) + 1)..Len(messages')
                    IN /\ rq'[r].duplicates_skipped = Cardinality(dups)
                       /\ rq'[r].queued = Len(flows) - Cardinality(dups)
                       /\ Len(messages') = Len(messages) + rq'[r].queued
                       /\ SubSeq(messages', 1, Len(messages)) = messages
                       /\ \A i \in DOMAIN flows :
                            Cardinality({m \in added :
                                /\ messages'[m].source = rq[r].source
                                /\ messages'[m].idempotency_key = key(i)
                                /\ messages'[m].status = "queued"})
                              = IF key(i) \in rq[r].existing_keys THEN 0 ELSE 1
         ]_vars

\* C4, witness: an admitted request is about to commit a flow with an explicit
\* flow_id whose key it read as existing.
C4_Witness ==
    \E r \in Sessions :
        /\ rq[r].pc = "insert"
        /\ \E i \in DOMAIN rq[r].flows :
              /\ rq[r].flows[i].flow_id # None
              /\ flow_idempotency_key(rq[r].source, rq[r].flows[i]) \in rq[r].existing_keys

\* C4, as stated: a request that submits again a (source, flow_id) stored inside
\* the idempotency window still succeeds, so it is never the request that is
\* rejected.
C4_DuplicateStillSucceeds ==
    [][\A r \in Sessions :
          (rq'[r] # rq[r] /\ rq'[r].pc = "rejected")
            => ~ \E i \in DOMAIN rq'[r].flows :
                    /\ rq'[r].flows[i].flow_id # None
                    /\ flow_idempotency_key(rq'[r].source, rq'[r].flows[i])
                         \in ExistingKeys(messages, rq'[r].source,
                                          now - ingest_idempotency_window_minutes)
      ]_vars

\* C5: no two messages of one source created within the idempotency window of
\* each other carry the same idempotency_key.
C5_KeyUniqueInWindow ==
    \A i \in DOMAIN messages, j \in DOMAIN messages :
        (/\ i # j
         /\ messages[i].source = messages[j].source
         /\ messages[i].idempotency_key = messages[j].idempotency_key
         /\ messages[i].created_at <= messages[j].created_at)
          => messages[j].created_at - messages[i].created_at
                > ingest_idempotency_window_minutes

\* C6: (a) a failed attempt records last_error and leaves the message
\* dead_letter when attempts equals max_attempts after the claim, failed when it
\* is below; (b) so stored attempts never exceed max_attempts, a failed message
\* has attempts left and a dead_letter message has none; (c) no worker holds a
\* claim on a dead_letter message; (d) a dead_letter message changes only through
\* a retry call, which queues it with attempts 0.
C6_DeadLetterTerminal ==
    /\ [](\A id \in DOMAIN messages :
            /\ messages[id].attempts <= ingest_max_attempts
            /\ messages[id].status = "failed"
                 => /\ messages[id].attempts < ingest_max_attempts
                    /\ messages[id].last_error # None
            /\ messages[id].status = "dead_letter"
                 => /\ messages[id].attempts = ingest_max_attempts
                    /\ messages[id].last_error # None
            /\ \A w \in Workers :
                 id \in DOMAIN wk[w].rows => messages[id].status # "dead_letter")
    /\ [][/\ \A w \in Workers :
               (wk[w].cur # 0 /\ wk'[w].cur = 0
                  /\ wk'[w].rows[wk[w].cur].status # "done")
                 => /\ wk'[w].rows[wk[w].cur].last_error # None
                    /\ wk'[w].rows[wk[w].cur].status =
                         IF wk[w].rows[wk[w].cur].attempts = ingest_max_attempts
                         THEN "dead_letter" ELSE "failed"
          /\ \A id \in DOMAIN messages :
               messages[id].status = "dead_letter"
                 => \/ messages'[id] = messages[id]
                    \/ /\ nRetries' = nRetries + 1
                       /\ messages'[id].status = "queued"
                       /\ messages'[id].attempts = 0
         ]_vars

\* C6, witness: a worker has just failed the last attempt of a message it
\* claimed from failed, and holds it as dead_letter.
C6_Witness ==
    \E w \in Workers :
        \E id \in DOMAIN wk[w].rows :
            /\ wk[w].rows[id].status = "dead_letter"
            /\ wk[w].rows[id].attempts = ingest_max_attempts
            /\ messages[id].status = "failed"

\* C7: with the worker running and scheduled fairly, every stored message
\* eventually is done or dead_letter.
C7_EventuallyTerminal ==
    \A id \in 1..MaxMessages :
        (id \in DOMAIN messages)
           ~> (id \in DOMAIN messages /\ messages[id].status \in {"done", "dead_letter"})

\* C7, witness: a message left in failed by an earlier attempt is claimed again.
C7_Witness ==
    \E id \in DOMAIN wk[1].rows :
        /\ messages[id].status = "failed"
        /\ wk[1].rows[id].status = "processing"
        /\ wk[1].rows[id].attempts = messages[id].attempts + 1

(***************************************************************************)
(* Properties of the detection engine.                                     *)
(***************************************************************************)
\* C8: with record_classification calls made one after the other and no status
\* change, (a) two alerts with the same dedup key are always created more than a
\* dedup window apart, so the threats of one key inside a window share one
\* alert; (b) a call for a threat that found an alert leaves the number of
\* alerts as it was and that alert, of the call's prediction, with the maximum
\* of its former and the call's confidence and the severity of that maximum;
\* (c) a call for a threat that found none adds one alert, new, with the call's
\* confidence and its severity; (d) a call for a non-threat changes no alert.
C8_DedupKeepsMaximum ==
    /\ [](\A i \in DOMAIN alerts, j \in DOMAIN alerts :
            (i < j /\ alerts[i].dedup_key = alerts[j].dedup_key)
              => alerts[j].created_at - alerts[i].created_at > alert_dedup_window_minutes)
    /\ [][\A s \in Sessions :
            (cs[s].pc = "commit" /\ cs'[s].pc = "idle")
              => LET res == cs[s].res
                     tx  == cs[s].tx
                 IN IF ~res.is_threat THEN alerts' = alerts
                    ELSE IF tx.held # {}
                    THEN /\ Len(alerts') = Len(alerts)
                         /\ \A i \in DOMAIN alerts :
                              IF Holds(tx, i)
                              THEN /\ alerts[i].dedup_key[1] = res.prediction
                                   /\ alerts'[i].confidence =
                                        (IF res.confidence > alerts[i].confidence
                                         THEN res.confidence ELSE alerts[i].confidence)
                                   /\ alerts'[i].severity = severity(alerts'[i].confidence)
                                   /\ alerts'[i].status = alerts[i].status
                                   /\ alerts'[i].created_at = alerts[i].created_at
                              ELSE alerts'[i] = alerts[i]
                    ELSE /\ Len(alerts') = Len(alerts) + 1
                         /\ SubSeq(alerts', 1, Len(alerts)) = alerts
                         /\ alerts'[Len(alerts')].dedup_key[1] = res.prediction
                         /\ alerts'[Len(alerts')].confidence = res.confidence
                         /\ alerts'[Len(alerts')].severity = severity(res.confidence)
                         /\ alerts'[Len(alerts')].status = "new"
         ]_vars

\* C8, witness: the store holds one alert, at confidence 0.93 after two calls;
\* a third call of the same key at 0.97 has merged into it and is about to
\* commit confidence 0.97, severity critical.
C8_Witness ==
    \E s \in Sessions :
        /\ cs[s].pc = "commit"
        /\ cs[s].res.confidence = 97
        /\ nEvents = 2
        /\ Len(alerts) = 1
        /\ alerts[1].confidence = 93
        /\ Holds(cs[s].tx, 1)
        /\ HeldOf(cs[s].tx, 1).dirty
        /\ severity(HeldOf(cs[s].tx, 1).confidence) = "critical"

\* C9: among the alerts created inside the dedup window, at most one per dedup
\* key is open (new, triaged or investigating).
C9_OneOpenAlertPerKey ==
    \A i \in DOMAIN alerts, j \in DOMAIN alerts :
        (/\ i # j
         /\ alerts[i].dedup_key = alerts[j].dedup_key
         /\ alerts[i].created_at >= now - alert_dedup_window_minutes
         /\ alerts[j].created_at >= now - alert_dedup_window_minutes)
          => ~(alerts[i].status \in OpenStatus /\ alerts[j].status \in OpenStatus)

\* C10: two sessions never both create an alert for one dedup key: neither as
\* inserts pending in the worker's and in an API session's transaction, nor as
\* two stored alerts of the key created within a dedup window of each other
\* that nobody has touched since.
C10_NoDoubleCreate ==
    /\ \A w \in Workers, s \in Sessions :
          \A a \in Range(wk[w].tx.ains), b \in Range(cs[s].tx.ains) :
              a.dedup_key # b.dedup_key
    /\ \A i \in DOMAIN alerts, j \in DOMAIN alerts :
          (/\ i < j
           /\ alerts[i].dedup_key = alerts[j].dedup_key
           /\ alerts[i].status = "new"
           /\ alerts[j].status = "new")
            => alerts[j].created_at - alerts[i].created_at > alert_dedup_window_minutes

\* C11: a PATCH of an alert's status from A to B is answered 200 iff B = A or
\* (A, B) is in the transition table, and then the alert carries B and nothing
\* else changed; every other request on a stored alert is answered 400 and
\* leaves the alerts as they were (404 for an alert that does not exist).
C11_TransitionTable ==
    [][patch' # patch =>
         LET id   == patch'.id
             to   == patch'.to
             Table == {<<"new", "triaged">>, <<"new", "investigating">>,
                       <<"new", "resolved">>, <<"new", "false_positive">>,
                       <<"triaged", "investigating">>, <<"triaged", "resolved">>,
                       <<"triaged", "false_positive">>,
                       <<"investigating", "resolved">>,
                       <<"investigating", "false_positive">>,
                       <<"resolved", "triaged">>, <<"false_positive", "triaged">>}
         IN /\ patch'.code \in {200, 400, 404}
            /\ (patch'.code = 404) <=> (id \notin DOMAIN alerts)
            /\ patch'.code # 404 =>
                 /\ patch'.from = alerts[id].status
                 /\ (patch'.code = 200) <=>
                        (to = alerts[id].status \/ <<alerts[id].status, to>> \in Table)
                 /\ patch'.code = 200 => alerts' = [alerts EXCEPT ![id].status = to]
                 /\ patch'.code = 400 => alerts' = alerts
      ]_vars

\* C11, witness: resolved -> investigating was refused and the alert is still
\* resolved.
C11_Witness ==
    /\ patch.code = 400
    /\ patch.from = "resolved"
    /\ patch.to = "investigating"
    /\ alerts[patch.id].status = "resolved"

\* C12: once stop() has returned (and nothing was started since) no
\* _process_batch call is still executing.
C12_StopWaitsForBatch ==
    (pipe.stop = "returned" /\ ~pipe.running) => \A t \in Workers : wk[t].pc = "idle"

\* C13: whatever was raised while a message was processed, the batch ends with
\* every message it claimed committed one attempt further and out of
\* processing: done, or failed / dead_letter with last_error set.
C13_FailureIsolated ==
    [][\A w \in Workers :
          (wk[w].pc = "batch" /\ wk'[w].pc # "batch")
            => \A id \in DOMAIN wk[w].rows :
                  /\ messages'[id].attempts = messages[id].attempts + 1
                  /\ messages'[id].status \in {"done", "failed", "dead_letter"}
                  /\ messages'[id].status \in {"failed", "dead_letter"}
                       => messages'[id].last_error # None
      ]_vars

C15_ProcessedMessageDone ==
    [][\A w \in Workers :
          /\ (wk[w].cur # 0 /\ wk'[w].cur = 0 /\ wk'[w].rows[wk[w].cur].status = "done")
               => LET id   == wk[w].cur
                      res  == wk'[w].res
                      old  == wk[w].tx
                      new  == wk'[w].tx
                      key  == <<res.prediction, "10.0.0.1", "10.0.0.2">>
                      open == \/ \E i \in DOMAIN alerts :
                                    /\ alerts[i].dedup_key = key
                                    /\ alerts[i].status \in OpenStatus
                                    /\ now - alerts[i].created_at <= alert_dedup_window_minutes
                              \/ \E k \in DOMAIN old.ains : old.ains[k].dedup_key = key
                  IN /\ messages[id].features_ok
                     /\ wk'[w].rows[id].last_error = None
                     /\ wk'[w].rows[id].attempts = wk[w].rows[id].attempts
                     /\ new.events = old.events + 1
                     /\ IF res.is_threat /\ ~open
                        THEN /\ Len(new.ains) = Len(old.ains) + 1
                             /\ SubSeq(new.ains, 1, Len(old.ains)) = old.ains
                             /\ new.ains[Len(new.ains)].dedup_key = key
                             /\ new.ains[Len(new.ains)].status = "new"
                             /\ new.ains[Len(new.ains)].confidence = res.confidence
                             /\ new.ains[Len(new.ains)].severity =
                                  (IF res.confidence >= 95 THEN "critical"
                                   ELSE IF res.confidence >= 90 THEN "high"
                                   ELSE IF res.confidence >= 80 THEN "medium" ELSE "low")
                        ELSE Len(new.ains) = Len(old.ains)
          /\ (wk[w].pc = "batch" /\ wk'[w].pc = "idle")
               => /\ \A id \in DOMAIN wk[w].rows :
                        wk[w].rows[id].status = "done"
                          => /\ messages'[id].status = "done"
                             /\ messages'[id].last_error = None
                  /\ nEvents' = nEvents + wk[w].tx.events
                  /\ Len(alerts') = Len(alerts) + Len(wk[w].tx.ains)
                  /\ \A k \in DOMAIN wk[w].tx.ains :
                        alerts'[Len(alerts) + k] = wk[w].tx.ains[k]
      ]_vars

\* C15, witness: a message that an earlier attempt had failed was classified as
\* a threat at 0.97; the worker holds it as done with last_error cleared, one
\* event and one new critical alert.
C15_Witness ==
    \E w \in Workers :
        \E id \in DOMAIN wk[w].rows :
            /\ messages[id].status = "failed"
            /\ messages[id].last_error # None
            /\ wk[w].rows[id].status = "done"
            /\ wk[w].rows[id].last_error = None
            /\ wk[w].res.confidence = 97
            /\ wk[w].tx.events = 1
            /\ Len(wk[w].tx.ains) = 1
            /\ wk[w].tx.ains[1].severity = "critical"
            /\ wk[w].tx.ains[1].status = "new"

\* C16: the notification dispatcher has been called exactly once for every
\* alert created so far (stored, or inserted by a transaction still open), so a
\* classification that merges into an alert or is not a threat calls it not at
\* all, and no step calls it more than once.
C16_NotifyOncePerNewAlert ==
    /\ notif.calls = Len(alerts)
                       + Len(wk[1].tx.ains) + Len(wk[2].tx.ains)
                       + Len(cs[1].tx.ains) + Len(cs[2].tx.ains)
    /\ notif.threads + notif.sent + notif.logged <= 2 * notif.calls
    /\ (~notif.webhook /\ ~notif.slack) => notif.threads = 0

\* C16, witness: one alert was created and notified, and a later threat of the
\* same key has been merged into it by a session, with no second call.
C16_Witness ==
    /\ Len(alerts) = 1
    /\ notif.calls = 1
    /\ nEvents >= 1
    /\ \E s \in Sessions :
          /\ cs[s].pc = "commit"
          /\ cs[s].tx.ains = <<>>
          /\ \E h \in cs[s].tx.held : h.id = 1 /\ h.dirty

\* C17: delivery is fire and forget: a step of the sender thread, whether its
\* posts succeed or fail, changes nothing but the notification log and counters
\* (a failed post is logged, one line per sink); and whatever the sinks and the
\* outcome of deliveries, a transaction that reached its commit commits
\* its events and alerts in full.
C17_FireAndForget ==
    [][/\ (notif'.threads < notif.threads)
            => /\ UNCHANGED <<messages, alerts, nEvents, wk, cs, rq>>
               /\ notif'.calls = notif.calls
               /\ notif'.threads = notif.threads - 1
               /\ (notif'.sent - notif.sent) + (notif'.logged - notif.logged)
                     = (IF notif.webhook THEN 1 ELSE 0) + (IF notif.slack THEN 1 ELSE 0)
               /\ notif'.sent >= notif.sent /\ notif'.logged >= notif.logged
       /\ \A s \in Sessions :
             (cs[s].pc = "commit" /\ cs'[s] # cs[s])
                => /\ nEvents' = nEvents + cs[s].tx.events
                   /\ Len(alerts') = Len(alerts) + Len(cs[s].tx.ains)
                   /\ \A k \in DOMAIN cs[s].tx.ains :
                         alerts'[Len(alerts) + k] = cs[s].tx.ains[k]
       /\ \A w \in Workers :
             (wk[w].pc = "batch" /\ wk'[w].pc # "batch")
                => /\ nEvents' = nEvents + wk[w].tx.events
                   /\ Len(alerts') = Len(alerts) + Len(wk[w].tx.ains)
                   /\ \A id \in DOMAIN wk[w].rows : messages'[id] = wk[w].rows[id]
      ]_vars

\* C17, witness: a delivery has failed and was logged while the session that
\* created the alert had not committed yet; C17_FireAndForget makes it commit.
C17_Witness ==
    /\ notif.logged >= 1
    /\ notif.threads = 0
    /\ \E s \in Sessions : cs[s].pc = "commit" /\ Len(cs[s].tx.ains) = 1

\* C18: a should_sample or evaluate call that overlaps an enable or a disable
\* never observes a configuration that is partly written: evaluate does not
\* raise on a model or label encoder already cleared, and a result it returns
\* was computed with the model, the label encoder and the version of one and
\* the same artifact.
C18_ReaderSeesWholeConfig ==
    /\ canary.outcome.kind # "AttributeError"
    /\ canary.outcome.kind = "result"
          => /\ canary.outcome.model = canary.outcome.label_encoder
             /\ canary.outcome.model = canary.outcome.version

\* C19: an enable call that raises because the artifact is missing or lacks the
\* model, the label encoder or the feature names reports a ValueError that says
\* which, never takes the lock and leaves the whole configuration as it was.
C19_FailedEnableKeepsConfig ==
    [][(/\ canary.writer.op = None
        /\ canary'.writer.op = None
        /\ canary'.out.op = "enable"
        /\ canary'.out # canary.out)
          => /\ canary'.out.error \in {NotFound, InvalidFormat}
             /\ canary'.cfg = canary.cfg
             /\ canary'.lock = canary.lock
             /\ canary'.last = canary.last
             /\ canary'.out.status = canary_status(canary.cfg)
      ]_vars

\* C19, witness: the canary was enabled on artifact v1 at 5 percent and the
\* last call, an enable on an artifact in the wrong format, failed.
C19_Witness ==
    /\ canary.out.op = "enable"
    /\ canary.out.error = InvalidFormat
    /\ canary.writer.op = None
    /\ canary.last = "enable"
    /\ canary.cfg = [enabled |-> TRUE, traffic_percent |-> 5, model_path |-> "v1",
                     model |-> "v1", label_encoder |-> "v1", feature_names |-> "v1",
                     version |-> "v1"]

\* C20: while disable is the last call that went through the lock and no enable
\* or disable is running, every attribute is cleared, and a should_sample or
\* evaluate call made in that time has returned false, respectively none.
C20_DisableClearsAll ==
    (canary.last = "disable" /\ canary.writer.op = None)
       => /\ canary.cfg.enabled = FALSE
          /\ canary.cfg.traffic_percent = 0
          /\ canary.cfg.model = None
          /\ canary.cfg.label_encoder = None
          /\ canary.cfg.feature_names = None
          /\ canary.cfg.model_path = None
          /\ canary.cfg.version = None
          /\ ~canary.lock
          /\ canary.out.status = canary_status(ClearedConfig)
          /\ (canary.reader.pc = "idle" /\ canary.reader.quiet)
                => canary.outcome.kind \in {"not_sampled", "no_result"}

\* C20, witness: should_sample answered true while the canary was enabled,
\* disable then ran and returned, and the evaluate call that followed returned
\* none.
C20_Witness ==
    /\ canary.last = "disable"
    /\ canary.writer.op = None
    /\ canary.out.op = "disable"
    /\ canary.reader.pc = "idle"
    /\ canary.reader.quiet
    /\ canary.outcome.kind = "no_result"

C22_RetryResets ==
    [][nRetries' # nRetries
          => LET id == retried'.id
             IN /\ Len(messages') = Len(messages)
                /\ IF id \in DOMAIN messages
                   THEN /\ retried'.code = 200
                        /\ messages'[id].status = "queued"
                        /\ messages'[id].attempts = 0
                        /\ messages'[id].last_error = None
                        /\ messages'[id].idempotency_key = messages[id].idempotency_key
                        /\ messages'[id].created_at = messages[id].created_at
                        /\ Claimable(messages'[id])
                        /\ ClaimMatches(messages'[id])
                        /\ \A other \in DOMAIN messages \ {id} :
                              messages'[other] = messages[other]
                   ELSE /\ retried'.code = 404
                        /\ messages' = messages
      ]_vars

\* C22, witness: the stored message 1 has been retried and answered 200
\* while the store holds a second message.
C22_Witness ==
    /\ retried = [code |-> 200, id |-> 1]
    /\ Len(messages) >= 2
    /\ messages[1].status = "queued"
    /\ messages[1].attempts = 0
    /\ messages[1].last_error = None

\* C23: whatever start() and stop() calls were made, at most one task is
\* alive in _run_loop without a cancellation pending.
C23_OneRunLoop ==
    Cardinality({t \in Workers : /\ pipe.tasks[t] \in {"created", "in_thread", "sleep"}
                                 /\ ~pipe.cancel[t]}) <= 1

C25_DriftReport ==
    drift.report.status # None
       => LET asked  == IF drift.window_events = <<>> \/ drift.window_events = <<0>>
                        THEN drift_window_events
                        ELSE drift.window_events[1]
              window == IF asked < drift_min_window THEN drift_min_window ELSE asked
              rows   == drift.predictions
              r      == drift.report
          IN IF Len(rows) < 2 * window
             THEN /\ r.status = "insufficient_data"
                  /\ r.required_events = 2 * window
                  /\ r.available_events = Len(rows)
                  /\ r.prediction_js_divergence = None
                  /\ r.canary_divergence_rate = None
             ELSE LET current  == Distribution(SubSeq(rows, 1, window))
                      baseline == Distribution(SubSeq(rows, window + 1, 2 * window))
                      evals    == SubSeq(drift.canary_rows, 1,
                                         IF Len(drift.canary_rows) < window
                                         THEN Len(drift.canary_rows) ELSE window)
                      bad      == Cardinality({i \in DOMAIN evals : evals[i]})
                  IN /\ r.status \in {"alert", "ok"}
                     /\ r.window_events = window
                     /\ r.current_distribution = current
                     /\ r.baseline_distribution = baseline
                     /\ r.prediction_js_divergence = <<jensen_shannon(current, baseline)>>
                     /\ r.status = "alert"
                           <=> \/ jensen_shannon(current, baseline) * 1000
                                     >= drift_alert_threshold * Unit
                               \/ evals # <<>>
                                    /\ bad * 1000 >= drift_alert_threshold * Len(evals)

\* C25, witness: with five events on record a report asked with window 1 was
\* computed on the floor window and is not insufficient_data, although the
\* default window would have been.
C25_Witness ==
    /\ drift.window_events = <<1>>
    /\ Len(drift.predictions) = 2 * drift_min_window + 1
    /\ Len(drift.predictions) < 2 * drift_window_events
    /\ drift.report.status = "alert"
    /\ drift.report.window_events = drift_min_window

C27_SameKeyIffSameFlow ==
    \A r \in Sessions :
        rq[r].pc = "keyed" =>
            LET f == rq[r].flows[1]
                g == rq[r].flows[2]
                named(x) == x.flow_id \notin {None, ""}
                same == IF named(f) /\ named(g) THEN f.flow_id = g.flow_id
                        ELSE IF ~named(f) /\ ~named(g) THEN f.content = g.content
                        ELSE FALSE
            IN (Cardinality(rq[r].existing_keys) = 1) <=> same


(***************************************************************************)
(* C28: the severity of an alert follows from its confidence alone: at     *)
(* least 0.95 is critical, at least 0.90 high, at least 0.80 medium,       *)
(* anything lower low; a confidence on a boundary takes the higher         *)
(* severity, and the attack type plays no part.                            *)
(***************************************************************************)
C28_SeverityFromConfidence ==
    LET graded(a) ==
            /\ a.confidence >= 95 => a.severity = "critical"
            /\ a.confidence >= 90 /\ a.confidence < 95 => a.severity = "high"
            /\ a.confidence >= 80 /\ a.confidence < 90 => a.severity = "medium"
            /\ a.confidence < 80 => a.severity = "low"
    IN /\ \A i \in DOMAIN alerts : graded(alerts[i])
       /\ \A s \in Sessions : \A k \in DOMAIN cs[s].tx.ains : graded(cs[s].tx.ains[k])

\* Two committed alerts of different attack types, one exactly on the critical
\* boundary and one exactly on the medium boundary.
C28_Witness ==
    \E i, j \in DOMAIN alerts :
        /\ alerts[i].dedup_key[1] # alerts[j].dedup_key[1]
        /\ alerts[i].confidence = 95 /\ alerts[i].severity = "critical"
        /\ alerts[j].confidence = 80 /\ alerts[j].severity = "medium"

(***************************************************************************)
(* C29: a record_classification call with is_threat false persists exactly *)
(* one ClassificationEvent, returns no alert and leaves the alerts table   *)
(* as it was: no alert is created, and no alert's confidence, severity,    *)
(* status or updated_at changes.                                           *)
(***************************************************************************)
C29_NonThreatLeavesAlerts ==
    [][\A s \in Sessions :
          /\ (cs[s].pc = "idle" /\ cs'[s].pc = "commit" /\ ~cs'[s].res.is_threat) =>
                /\ cs'[s].tx.events = 1
                /\ cs'[s].tx.ains = <<>>
                /\ cs'[s].tx.held = {}
                /\ cs'[s].alert_id = 0
                /\ alerts' = alerts
          /\ (cs[s].pc = "commit" /\ cs'[s].pc = "idle" /\ ~cs[s].res.is_threat) =>
                /\ nEvents' = nEvents + 1
                /\ alerts' = alerts]_vars

\* A non-threat classification recorded, and about to be committed, while an
\* open alert is in the table.
C29_Witness ==
    \E s \in Sessions :
        /\ cs[s].pc = "commit"
        /\ cs[s].res.prediction = "BENIGN"
        /\ ~cs[s].res.is_threat
        /\ cs[s].tx.events = 1
        /\ \E i \in DOMAIN alerts : alerts[i].status \in OpenStatus

(***************************************************************************)
(* C30: a threat that matches an existing open alert creates no new alert  *)
(* and changes only that alert: its confidence and severity are            *)
(* overwritten only when the new confidence is strictly higher, its        *)
(* updated_at is set to the time of the call, its status and every other   *)
(* alert stay as they were.                                                *)
(***************************************************************************)
C30_MergeChangesOnlyMatch ==
    [][\A s \in Sessions :
          /\ (cs[s].pc = "idle" /\ cs'[s].pc = "commit" /\ cs'[s].res.is_threat) =>
                LET res     == cs'[s].res
                    matches == {i \in DOMAIN alerts :
                                   /\ alerts[i].dedup_key[1] = res.prediction
                                   /\ alerts[i].created_at >= now - alert_dedup_window_minutes
                                   /\ alerts[i].status \in OpenStatus}
                IN matches # {} =>
                      /\ cs'[s].alert_id \in matches
                      /\ cs'[s].tx.ains = <<>>
                      /\ {h.id : h \in cs'[s].tx.held} = {cs'[s].alert_id}
                      /\ \A h \in cs'[s].tx.held : h.updated_at = now
                      /\ alerts' = alerts
          /\ (cs[s].pc = "commit" /\ cs'[s].pc = "idle" /\ cs[s].alert_id \in DOMAIN alerts) =>
                LET i      == cs[s].alert_id
                    higher == cs[s].res.confidence > alerts[i].confidence
                IN /\ Len(alerts') = Len(alerts)
                   /\ \A j \in DOMAIN alerts : j # i => alerts'[j] = alerts[j]
                   /\ alerts'[i].confidence =
                         IF higher THEN cs[s].res.confidence ELSE alerts[i].confidence
                   /\ alerts'[i].severity =
                         IF higher THEN severity(cs[s].res.confidence) ELSE alerts[i].severity
                   /\ \A h \in cs[s].tx.held : alerts'[i].updated_at = h.updated_at
                   /\ alerts'[i].status = alerts[i].status
                   /\ alerts'[i].dedup_key = alerts[i].dedup_key
                   /\ alerts'[i].created_at = alerts[i].created_at]_vars

\* A triaged alert of confidence 0.93 that a later threat of confidence 0.81
\* was merged into, next to an untouched alert: its updated_at has moved, its
\* confidence, severity and status have not.
C30_Witness ==
    /\ Len(alerts) = 2
    /\ nEvents >= 1
    /\ \A s \in Sessions : cs[s].pc = "idle"
    /\ alerts[1].status = "triaged"
    /\ alerts[1].confidence = 93 /\ alerts[1].severity = "high"
    /\ alerts[1].created_at = 0 /\ alerts[1].updated_at > 0
    /\ alerts[2].updated_at = 0

(***************************************************************************)
(* C31: a worker batch takes as candidates the oldest messages, at most    *)
(* batch_size of them, that are queued or failed with attempts below       *)
(* max_attempts, and claims them oldest first; a message is claimed only   *)
(* while it is queued or failed with attempts below max_attempts (never    *)
(* while done, dead_letter or processing), and the claim adds exactly 1 to *)
(* its attempts.                                                           *)
(***************************************************************************)
C31_ClaimsEligibleOldestFirst ==
    [][\A w \in Workers :
          /\ (wk[w].pc = "idle" /\ wk'[w].pc = "batch") =>
                LET eligible == {i \in DOMAIN messages :
                                    /\ messages[i].status \in {"queued", "failed"}
                                    /\ messages[i].attempts < ingest_max_attempts}
                IN /\ wk'[w].cand \subseteq eligible
                   /\ Cardinality(wk'[w].cand) <= ingest_batch_size
                   /\ \A x \in wk'[w].cand, y \in eligible \ wk'[w].cand :
                          messages[x].created_at <= messages[y].created_at
          /\ (wk[w].pc = "batch" /\ wk[w].cur = 0 /\ wk'[w].cur # 0) =>
                LET id == wk'[w].cur
                IN /\ messages[id].status \in {"queued", "failed"}
                   /\ messages[id].attempts < ingest_max_attempts
                   /\ wk'[w].rows[id].status = "processing"
                   /\ wk'[w].rows[id].attempts = messages[id].attempts + 1
                   /\ \A x \in wk[w].cand :
                          messages[id].created_at <= messages[x].created_at
                   /\ wk'[w].processed <= ingest_batch_size]_vars

\* A batch that left the newest of three claimable messages out and has
\* claimed its second message, a failed one.
C31_Witness ==
    \E w \in Workers :
        /\ wk[w].pc = "batch"
        /\ wk[w].processed = ingest_batch_size
        /\ wk[w].cur # 0
        /\ messages[wk[w].cur].status = "failed"
        /\ wk[w].rows[wk[w].cur].attempts = messages[wk[w].cur].attempts + 1
        /\ \E y \in DOMAIN messages :
               /\ y \notin DOMAIN wk[w].rows
               /\ messages[y].status \in {"queued", "failed"}
               /\ messages[y].created_at > messages[wk[w].cur].created_at

(***************************************************************************)
(* C32: every message, committed or in a worker's open transaction, has    *)
(* attempts between 0 and max_attempts; a failed message has attempts      *)
(* below max_attempts, a dead_letter message has attempts at max_attempts  *)
(* or more, and no queued or failed message has used up its attempts.      *)
(***************************************************************************)
C32_AttemptsWithinMax ==
    LET bounded(row) ==
            /\ row.attempts >= 0
            /\ row.attempts <= ingest_max_attempts
            /\ row.status \in {"queued", "failed"} => row.attempts < ingest_max_attempts
            /\ row.status = "dead_letter" => row.attempts >= ingest_max_attempts
    IN /\ \A i \in DOMAIN messages : bounded(messages[i])
       /\ \A w \in Workers : \A i \in DOMAIN wk[w].rows : bounded(wk[w].rows[i])

\* A worker has just dead-lettered a message it found failed, on its last
\* attempt, while another message stays failed with an attempt to spare.
C32_Witness ==
    \E w \in Workers : \E i \in DOMAIN wk[w].rows : \E j \in DOMAIN messages :
        /\ messages[i].status = "failed"
        /\ wk[w].rows[i].status = "dead_letter"
        /\ wk[w].rows[i].attempts = ingest_max_attempts
        /\ j # i
        /\ messages[j].status = "failed"
        /\ messages[j].attempts < ingest_max_attempts

(***************************************************************************)
(* C33: when a _process_batch call returns or is aborted, no message is    *)
(* left in processing: every message the batch claimed is done, failed or  *)
(* dead_letter, or is as it was before the claim.                          *)
(***************************************************************************)
C33_NoneLeftProcessing ==
    [][\A w \in Workers :
          (wk[w].pc = "batch" /\ wk'[w].pc \in {"idle", "raised"}) =>
             /\ \A i \in DOMAIN messages' : messages'[i].status # "processing"
             /\ \A i \in DOMAIN wk[w].rows :
                    \/ messages'[i].status \in {"done", "failed", "dead_letter"}
                    \/ messages'[i] = messages[i]]_vars

\* A batch that had claimed two messages was aborted, and both are queued or
\* failed again.
C33_Witness ==
    \E w \in Workers :
        /\ wk[w].pc = "raised"
        /\ wk[w].processed = 2
        /\ Len(messages) = 2
        /\ \A i \in DOMAIN messages : messages[i].status \in {"queued", "failed"}

(***************************************************************************)
(* C34: what a batch commits besides the messages belongs to the attempts  *)
(* that ended in done: one ClassificationEvent for each message the batch  *)
(* leaves done, at most one ModelEvaluationEvent and at most one Alert for *)
(* each of them, and nothing for an attempt that ended in failed or        *)
(* dead_letter.                                                            *)
(***************************************************************************)
C34_EffectsOnlyForDone ==
    [][\A w \in Workers :
          (wk[w].pc = "batch" /\ wk'[w].pc = "idle") =>
             LET done == Cardinality({i \in DOMAIN wk[w].rows :
                                         wk[w].rows[i].status = "done"})
             IN /\ nEvents' - nEvents = done
                /\ nEvals' - nEvals <= done
                /\ Len(alerts') - Len(alerts) <= done]_vars

(***************************************************************************)
(* C35: a flow is skipped as a duplicate exactly when a message of the     *)
(* same source with the same key was created inside the idempotency        *)
(* window, whatever the status of that message (done and dead_letter       *)
(* included); the same flow from another source, or sent again after the   *)
(* window has passed, is enqueued as a new message.                        *)
(***************************************************************************)
C35_SuppressionBySourceAndWindow ==
    [][\A r \in Sessions :
          /\ (rq[r].pc = "keys" /\ rq'[r].pc = "insert") =>
                rq'[r].existing_keys =
                    {messages[i].idempotency_key : i \in {j \in DOMAIN messages :
                        /\ messages[j].source = rq[r].source
                        /\ now - messages[j].created_at <= ingest_idempotency_window_minutes}}
          /\ (rq[r].pc = "insert" /\ rq'[r].pc = "done" /\ Len(rq[r].flows) = 1) =>
                LET key == flow_idempotency_key(rq[r].source, rq[r].flows[1])
                IN IF key \in rq[r].existing_keys
                   THEN /\ messages' = messages
                        /\ rq'[r].duplicates_skipped = 1
                        /\ rq'[r].queued = 0
                   ELSE /\ Len(messages') = Len(messages) + 1
                        /\ SubSeq(messages', 1, Len(messages)) = messages
                        /\ messages'[Len(messages')].source = rq[r].source
                        /\ messages'[Len(messages')].idempotency_key = key
                        /\ messages'[Len(messages')].status = "queued"
                        /\ rq'[r].duplicates_skipped = 0
                        /\ rq'[r].queued = 1]_vars

\* Flow f1 of source s1, whose first message is dead_letter, was skipped inside
\* the window, enqueued from source s2, and enqueued again from s1 after the
\* window.
C35_Witness ==
    /\ Len(messages) = 3
    /\ messages[1].status = "dead_letter"
    /\ \E i, j \in 2..3 :
           /\ messages[i].source = "s2"
           /\ messages[i].idempotency_key[2] = messages[1].idempotency_key[2]
           /\ messages[j].source = "s1"
           /\ messages[j].idempotency_key = messages[1].idempotency_key
           /\ messages[j].created_at - messages[1].created_at >
                  ingest_idempotency_window_minutes
    /\ \E r \in Sessions : rq[r].pc = "done" /\ rq[r].duplicates_skipped = 1

(***************************************************************************)
(* C36: an enqueue request is rejected exactly when the queue depth is at  *)
(* the maximum or the depth plus the number of flows in the request        *)
(* exceeds it; every flow of the request counts, also one that would be    *)
(* skipped as a duplicate.                                                 *)
(***************************************************************************)
C36_BackpressureCountsEveryFlow ==
    [][\A r \in Sessions :
          (rq[r].pc \notin {"keys", "insert"} /\ rq'[r].pc \in {"rejected", "keys"}
           /\ rq'[r] # rq[r]) =>
             LET depth == Cardinality({i \in DOMAIN messages :
                              messages[i].status \in {"queued", "processing", "failed"}})
             IN (rq'[r].pc = "rejected") <=>
                    \/ depth >= ingest_max_queue_depth
                    \/ depth + Len(rq'[r].flows) > ingest_max_queue_depth]_vars

\* A request of two flows with one key is rejected at a depth where the one
\* message it could add would fit.
C36_Witness ==
    \E r \in Sessions :
        /\ rq[r].pc = "rejected"
        /\ Len(rq[r].flows) = 2
        /\ flow_idempotency_key(rq[r].source, rq[r].flows[1]) =
               flow_idempotency_key(rq[r].source, rq[r].flows[2])
        /\ QueueDepth(messages) + 1 <= ingest_max_queue_depth

(***************************************************************************)
(* C37: in every state each alert carries the severity the thresholds give *)
(* to its confidence, and no record_classification call or status change   *)
(* lowers an alert's confidence or removes an alert.                       *)
(***************************************************************************)
C37_SeverityTracksRisingConfidence ==
    /\ [](\A i \in DOMAIN alerts :
             alerts[i].severity =
                 IF alerts[i].confidence >= 95 THEN "critical"
                 ELSE IF alerts[i].confidence >= 90 THEN "high"
                 ELSE IF alerts[i].confidence >= 80 THEN "medium"
                 ELSE "low")
    /\ [][/\ Len(alerts') >= Len(alerts)
          /\ \A i \in DOMAIN alerts :
                 alerts'[i].confidence >= alerts[i].confidence]_vars

\* An alert raised to 0.97 and since triaged, with a threat of confidence 0.81
\* merged into it and about to be committed.
C37_Witness ==
    \E s \in Sessions : \E i \in DOMAIN alerts :
        /\ cs[s].pc = "commit"
        /\ cs[s].alert_id = i
        /\ cs[s].res.confidence = 81
        /\ alerts[i].status = "triaged"
        /\ alerts[i].confidence = 97
        /\ alerts[i].severity = "critical"
        /\ nEvents >= 2

(***************************************************************************)
(* C38: no status change and no classification puts an alert that is not   *)
(* new back to new, and the status that follows resolved or false_positive *)
(* is never investigating: such an alert is triaged first.                 *)
(***************************************************************************)
C38_NoReturnToNew ==
    [][\A i \in DOMAIN alerts :
          /\ i \in DOMAIN alerts'
          /\ alerts[i].status # "new" => alerts'[i].status # "new"
          /\ alerts[i].status \in {"resolved", "false_positive"} =>
                alerts'[i].status \in {alerts[i].status, "triaged"}]_vars

\* A resolved alert whose return to new was refused, beside the new alert a
\* later threat of the same key has opened.
C38_Witness ==
    /\ Len(alerts) = 2
    /\ alerts[1].status = "resolved"
    /\ alerts[2].status = "new"
    /\ alerts[2].dedup_key = alerts[1].dedup_key
    /\ patch = [code |-> 400, id |-> 1, from |-> "resolved", to |-> "new"]

(***************************************************************************)
(* C39: whenever is_running is true a run loop is alive: some task is      *)
(* about to run, awaiting its batch or sleeping between two polls.         *)
(***************************************************************************)
C39_RunningMeansLoopAlive ==
    pipe.running => \E t \in Workers : pipe.tasks[t] \in {"created", "in_thread", "sleep"}

====
